---- MODULE Spec2Model ----
(***************************************************************************)
(* A model of the tabone/websocket library: the frame codec, the           *)
(* CloseError codec and the Socket state machine (read loop, Write,        *)
(* Close, CloseWithError, TCPClose), with the goroutines that call them.   *)
(*                                                                         *)
(* Bytes are integers 0..255; a Go []byte and a Go string are both         *)
(* sequences of bytes.  Every unsynchronised read or write of a Socket     *)
(* field is one atomic step of the goroutine that performs it.             *)
(***************************************************************************)
EXTENDS Integers, Sequences, FiniteSets, TLC

(***************************************************************************)
(* Program constants.                                                      *)
(***************************************************************************)
OpcodeContinuation == 0
OpcodeText == 1
OpcodeBinary == 2
OpcodeClose == 8
OpcodePing == 9
OpcodePong == 10

CloseNormalClosure == 1000
CloseGoingAway == 1001
CloseProtocolError == 1002
CloseUnsupportedData == 1003
CloseNoStatusReceived == 1005
CloseAbnormalClosure == 1006
CloseInvalidFramePayloadData == 1007
ClosePolicyViolation == 1008
CloseMessageTooBig == 1009
CloseMandatoryExtension == 1010
CloseInternalServerErr == 1011
CloseTLSHandshake == 1015

stateOpened == 0
stateClosing == 1
stateClosed == 2

(***************************************************************************)
(* String literals of the source, as their bytes.                          *)
(***************************************************************************)
StrNormalClosure ==
  <<110, 111, 114, 109, 97, 108, 32, 99, 108, 111, 115, 117, 114, 101>>
StrAbnormalClosure ==
  <<97, 98, 110, 111, 114, 109, 97, 108, 32, 99, 108, 111, 115, 117, 114, 101>>
StrNoStatusRecieved ==
  <<110, 111, 32, 115, 116, 97, 116, 117, 115, 32, 114, 101, 99, 105, 101,
    118, 101, 100>>
StrProtocolError ==
  <<112, 114, 111, 116, 111, 99, 111, 108, 32, 101, 114, 114, 111, 114>>
StrExpectedMasked ==
  <<101, 120, 112, 101, 99, 116, 101, 100, 32, 112, 97, 121, 108, 111, 97,
    100, 32, 116, 111, 32, 98, 101, 32, 109, 97, 115, 107, 101, 100>>
StrExpectedNotMasked ==
  <<101, 120, 112, 101, 99, 116, 101, 100, 32, 112, 97, 121, 108, 111, 97,
    100, 32, 116, 111, 32, 110, 111, 116, 32, 98, 101, 32, 109, 97, 115, 107,
    101, 100>>
StrNoExtensions ==
  <<110, 111, 32, 115, 117, 112, 112, 111, 114, 116, 32, 102, 111, 114, 32,
    101, 120, 116, 101, 110, 115, 105, 111, 110, 115>>
StrUnsupportedOpcode ==
  <<117, 110, 115, 117, 112, 112, 111, 114, 116, 101, 100, 32, 111, 112, 99,
    111, 100, 101, 58, 32>>
StrBadKey ==
  <<109, 97, 115, 107, 105, 110, 103, 32, 107, 101, 121, 32, 109, 117, 115,
    116, 32, 101, 105, 116, 104, 101, 114, 32, 98, 101, 32, 48, 32, 111, 114,
    32, 52, 32, 98, 121, 116, 101, 115, 32, 108, 111, 110, 103>>
StrPayloadExceeded ==
  <<109, 97, 120, 105, 109, 117, 109, 32, 112, 97, 121, 108, 111, 97, 100,
    32, 100, 97, 116, 97, 32, 101, 120, 99, 101, 101, 100, 101, 100>>

(***************************************************************************)
(* Error values.  Every Go error value is a record with a kind field.      *)
(***************************************************************************)
Nil == [kind |-> "nil"]
CloseError(c, r) == [kind |-> "CloseError", Code |-> c, Reason |-> r]
ErrSocketClosed == [kind |-> "ErrSocketClosed"]
ErrInvalidCode == [kind |-> "errorString"]
EOF == [kind |-> "EOF"]
OpError(op) == [kind |-> "OpError", Op |-> op]
ErrOther == [kind |-> "other"]

(***************************************************************************)
(* Byte arithmetic.                                                        *)
(***************************************************************************)
RECURSIVE XorBits(_, _, _)
XorBits(a, b, n) ==
  IF n = 0 THEN 0
  ELSE (((a % 2) + (b % 2)) % 2) + 2 * XorBits(a \div 2, b \div 2, n - 1)

Xor(a, b) == XorBits(a, b, 8)

\* binary.BigEndian.PutUint16 / PutUint64: n as k bytes, most significant first
RECURSIVE BigEndian(_, _)
BigEndian(n, k) ==
  IF k = 0 THEN <<>> ELSE Append(BigEndian(n \div 256, k - 1), n % 256)

\* fmt.Sprintf("%d", n) for n >= 0
RECURSIVE Decimal(_)
Decimal(n) ==
  IF n < 10 THEN <<48 + n>> ELSE Append(Decimal(n \div 10), 48 + (n % 10))

(***************************************************************************)
(* frame_utils.go                                                          *)
(***************************************************************************)
\* A faulty mask that adds the key byte instead (C26 detects it)
maskAdd(p, k) == [i \in 1..Len(p) |-> (p[i] + k[((i - 1) % 4) + 1]) % 256]

mask(p, k) == [i \in 1..Len(p) |-> Xor(p[i], k[((i - 1) % 4) + 1])]

opcodeExist(i) ==
  i \in {OpcodeContinuation, OpcodeText, OpcodeBinary, OpcodeClose,
         OpcodePing, OpcodePong}

validateKey(k) == Len(k) = 0 \/ Len(k) = 4

(***************************************************************************)
(* utils.go                                                                *)
(***************************************************************************)
\* A faulty closeErrorExist that takes every code from 1000 to 1015 (C38
\* detects it)
closeErrorExistRange(i) == i >= 1000 /\ i <= 1015

closeErrorExist(i) ==
  i \in {CloseNormalClosure, CloseGoingAway, CloseProtocolError,
         CloseUnsupportedData, CloseNoStatusReceived, CloseAbnormalClosure,
         CloseInvalidFramePayloadData, ClosePolicyViolation,
         CloseMessageTooBig, CloseMandatoryExtension, CloseInternalServerErr,
         CloseTLSHandshake}

(***************************************************************************)
(* errors.go                                                               *)
(***************************************************************************)
\* A faulty toBytesCode that puts the least significant byte first (C25
\* detects it)
toBytesCodeLittleEndian(c) == <<c.Code % 256, (c.Code \div 256) % 256>>

toBytesCode(c) == BigEndian(c.Code % 65536, 2)

\* (bytes, error)
ToBytes(c) ==
  IF ~closeErrorExist(c.Code)
  THEN [b |-> toBytesCode(CloseError(CloseNoStatusReceived, StrNoStatusRecieved))
                \o StrNoStatusRecieved,
        err |-> ErrInvalidCode]
  ELSE [b |-> toBytesCode(c) \o c.Reason, err |-> Nil]

\* (*CloseError, error)
NewCloseError(b) ==
  LET c == IF Len(b) >= 2 THEN b[1] * 256 + b[2] ELSE 0
  IN  IF ~closeErrorExist(c)
      THEN [c |-> CloseError(CloseNoStatusReceived, StrNoStatusRecieved),
            err |-> ErrInvalidCode]
      ELSE [c |-> CloseError(c, SubSeq(b, 3, Len(b))), err |-> Nil]

(***************************************************************************)
(* frame.go                                                                *)
(***************************************************************************)
Frame(fin, o, m, l, k, p) ==
  [fin |-> fin, opcode |-> o, masked |-> m, length |-> l, key |-> k,
   payload |-> p]

NoFrame == Frame(FALSE, 0, FALSE, 0, <<>>, <<>>)

\* A faulty validate that does not look at the opcode (C37 detects it)
validateKeyOnly(f) ==
  IF ~validateKey(f.key)
  THEN CloseError(CloseProtocolError, StrBadKey)
  ELSE Nil

validate(f) ==
  IF ~opcodeExist(f.opcode)
  THEN CloseError(CloseProtocolError, StrUnsupportedOpcode \o Decimal(f.opcode))
  ELSE IF ~validateKey(f.key)
  THEN CloseError(CloseProtocolError, StrBadKey)
  ELSE Nil

\* A faulty encoder that takes the length from the frame's field (C39
\* detects it)
toBytesPayloadLengthOfField(f) ==
  LET l == f.length
  IN  IF l <= 125 THEN l ELSE IF l <= 65535 THEN 126 ELSE 127

toBytesPayloadLength(f) ==
  LET l == Len(f.payload)
  IN  IF l <= 125 THEN l ELSE IF l <= 65535 THEN 126 ELSE 127

\* A faulty encoder that writes every extended length in two bytes (C21
\* detects it)
toBytesPayloadLengthExtShort(f) ==
  LET l == Len(f.payload)
  IN  IF l <= 125 THEN <<>> ELSE BigEndian(l % 65536, 2)

toBytesPayloadLengthExt(f) ==
  LET l == Len(f.payload)
  IN  IF l <= 125 THEN <<>>
      ELSE IF l <= 65535 THEN BigEndian(l, 2) ELSE BigEndian(l, 8)

\* A faulty encoder that sends the payload of a masked frame as it is (C14
\* detects it)
toBytesPayloadDataPlain(f) == f.payload

toBytesPayloadData(f) ==
  IF Len(f.key) = 4 THEN mask(f.payload, f.key) ELSE f.payload

\* (bytes, error)
toBytes(f) ==
  IF validate(f) # Nil THEN [b |-> <<>>, err |-> validate(f)]
  ELSE [b |-> << ((IF f.fin THEN 128 ELSE 0) + f.opcode) % 256,
                 ((IF Len(f.key) # 0 THEN 128 ELSE 0)
                    + toBytesPayloadLength(f)) % 256 >>
               \o toBytesPayloadLengthExt(f)
               \o f.key
               \o toBytesPayloadData(f),
        err |-> Nil]

\* The value of k bytes of s starting after position pos, big endian.
RECURSIVE FromBigEndian(_, _, _)
FromBigEndian(s, pos, k) ==
  IF k = 0 THEN 0
  ELSE FromBigEndian(s, pos, k - 1) * 256 + s[pos + k]

\* readLength: the number of extra length bytes for a 7-bit marker
LengthBytes(m) == IF m <= 125 THEN 0 ELSE IF m = 126 THEN 2 ELSE 8

\* A decoded length that cannot be satisfied by the bytes at hand (any of the
\* five most significant of eight length bytes non-zero, bit 63 cleared).
HugeLength(s) ==
  \/ s[3] % 128 # 0
  \/ \E i \in 4..7 : s[i] # 0

(***************************************************************************)
(* newFrame on the bytes s the transport can deliver: "ok" with the frame  *)
(* and the number of bytes consumed, "cerr" with the CloseError of         *)
(* readInitial, or "need" when a readFromBuffer would wait for more bytes. *)
(***************************************************************************)
newFrame(s) ==
  LET need == [st |-> "need", f |-> NoFrame, n |-> 0, e |-> Nil] IN
  IF Len(s) < 2 THEN need
  ELSE
    LET fin == s[1] \div 128 = 1
        opcode == s[1] % 16
        masked == s[2] \div 128 = 1
        marker == s[2] % 128
        lb == LengthBytes(marker)
    IN
    IF (s[1] \div 16) % 8 # 0
    THEN [st |-> "cerr", f |-> NoFrame, n |-> 2,
          e |-> CloseError(CloseProtocolError, StrNoExtensions)]
    ELSE IF ~opcodeExist(opcode)
    THEN [st |-> "cerr", f |-> NoFrame, n |-> 2,
          e |-> CloseError(CloseProtocolError,
                           StrUnsupportedOpcode \o Decimal(opcode))]
    ELSE IF Len(s) < 2 + lb THEN need
    ELSE IF lb = 8 /\ HugeLength(s) THEN need
    ELSE
      LET length == IF lb = 0 THEN marker
                    ELSE IF lb = 2 THEN FromBigEndian(s, 2, 2)
                    ELSE FromBigEndian(s, 7, 3)
          kb == IF masked THEN 4 ELSE 0
          total == 2 + lb + kb + length
      IN
      IF Len(s) < total THEN need
      ELSE
        LET key == SubSeq(s, 2 + lb + 1, 2 + lb + kb)
            raw == SubSeq(s, 2 + lb + kb + 1, total)
        IN [st |-> "ok",
            f |-> Frame(fin, opcode, masked, length, key,
                        IF masked THEN mask(raw, key) ELSE raw),
            n |-> total, e |-> Nil]

(***************************************************************************)
(* frame.go: readInitial and readLength on their own                        *)
(***************************************************************************)
\* A faulty readInitial that looks at the opcode before the RSV bits (C23
\* detects it)
readInitialOpcodeFirst(p) ==
  LET fin == p[1] \div 128 = 1
      opcode == p[1] % 16
  IN  IF ~opcodeExist(opcode)
      THEN [err |-> CloseError(CloseProtocolError,
                               StrUnsupportedOpcode \o Decimal(opcode)),
            fin |-> fin, opcode |-> opcode, masked |-> FALSE, length |-> 0]
      ELSE IF (p[1] \div 16) % 8 # 0
      THEN [err |-> CloseError(CloseProtocolError, StrNoExtensions),
            fin |-> fin, opcode |-> 0, masked |-> FALSE, length |-> 0]
      ELSE [err |-> Nil, fin |-> fin, opcode |-> opcode,
            masked |-> p[2] \div 128 = 1, length |-> p[2] % 128]

\* frame.readInitial on the two bytes p it read: the error it returns and
\* the fields of the frame it has set by then
readInitial(p) ==
  LET fin == p[1] \div 128 = 1
      opcode == p[1] % 16
  IN  IF (p[1] \div 16) % 8 # 0
      THEN [err |-> CloseError(CloseProtocolError, StrNoExtensions),
            fin |-> fin, opcode |-> 0, masked |-> FALSE, length |-> 0]
      ELSE IF ~opcodeExist(opcode)
      THEN [err |-> CloseError(CloseProtocolError,
                               StrUnsupportedOpcode \o Decimal(opcode)),
            fin |-> fin, opcode |-> opcode, masked |-> FALSE, length |-> 0]
      ELSE [err |-> Nil, fin |-> fin, opcode |-> opcode,
            masked |-> p[2] \div 128 = 1, length |-> p[2] % 128]

\* A uint64 is kept as its eight bytes, the most significant first
Uint64(n) == BigEndian(n, 8)

RECURSIVE ShiftIn(_, _)
\* The loop of readLength: for every byte v of u, w = (w << 8) + v in 64
\* bits.  The shift drops the most significant byte and leaves the least
\* significant one zero, so the addition carries nothing.
ShiftIn(w, u) ==
  IF u = <<>> THEN w ELSE ShiftIn(Tail(w) \o <<Head(u)>>, Tail(u))

\* A faulty readLength that leaves bit 63 as it is (C24 detects it)
readLengthKeepsBit63(m, s) ==
  IF m <= 125 THEN [length |-> Uint64(m), n |-> 0]
  ELSE LET l == IF m = 127 THEN 8 ELSE 2
       IN  [length |-> ShiftIn(Uint64(0), SubSeq(s, 1, l)), n |-> l]

\* frame.readLength for the 7-bit length m of readInitial and the bytes s
\* that follow: the length it leaves in the frame and the number of bytes
\* it has read
readLength(m, s) ==
  IF m <= 125 THEN [length |-> Uint64(m), n |-> 0]
  ELSE LET l == IF m = 127 THEN 8 ELSE 2
           w == ShiftIn(Uint64(0), SubSeq(s, 1, l))
       IN  [length |-> [w EXCEPT ![1] = @ % 128], n |-> l]

(***************************************************************************)
(* frame.toBytesPayloadData and the memory it works on.  A slice is named: *)
(* "payload" is f.payload, which Write takes from its caller as it is, and *)
(* "p" is the slice toBytesPayloadData makes.                              *)
(***************************************************************************)
\* mask(p, k), which changes the bytes of the slice a where they are
maskAt(mem, a, k) == [mem EXCEPT ![a] = mask(@, k)]

\* A faulty toBytesPayloadData that masks f.payload itself (C27 detects it)
toBytesPayloadDataAt(mem, key) ==
  [mem |-> IF Len(key) = 4 THEN maskAt(mem, "payload", key) ELSE mem,
   ret |-> "payload"]

\* The memory toBytesPayloadData leaves and the slice it returns
toBytesPayloadDataCopy(mem, key) ==
  LET copied == ("p" :> mem["payload"]) @@ mem
  IN  [mem |-> IF Len(key) = 4 THEN maskAt(copied, "p", key) ELSE copied,
       ret |-> "p"]

(***************************************************************************)
(* utils.go: readFromBuffer on a bufio.Reader.  The reader is buf, the     *)
(* bytes it holds, chunks, what the reads of the transport will give, one  *)
(* chunk for one read, and end, what the transport does after the last     *)
(* chunk: it blocks (no more data arrives) or returns an error.            *)
(***************************************************************************)
\* The size of the reader's buffer (4096 in bufio, scaled down)
BufSize == 2

Min(a, b) == IF a <= b THEN a ELSE b

\* bufio.Reader.Read into a slice of length n > 0: the bytes it gives, the
\* error it returns, and the reader after it.  An empty reader does one
\* read of the transport: into the slice when n >= BufSize, into its
\* buffer otherwise.  "wait" is a read of the transport that never returns.
Read(rd, n) ==
  IF rd.buf # <<>>
  THEN LET i == Min(n, Len(rd.buf))
       IN  [t |-> SubSeq(rd.buf, 1, i), err |-> Nil,
            rd |-> [rd EXCEPT !.buf = SubSeq(@, i + 1, Len(@))]]
  ELSE IF rd.chunks = <<>>
  THEN [t |-> <<>>,
        err |-> IF rd.end.kind = "block" THEN [kind |-> "wait"] ELSE rd.end,
        rd |-> rd]
  ELSE LET c    == Head(rd.chunks)
           got  == Min(IF n >= BufSize THEN n ELSE BufSize, Len(c))
           left == SubSeq(c, got + 1, Len(c))
           rest == IF left = <<>> THEN Tail(rd.chunks)
                   ELSE <<left>> \o Tail(rd.chunks)
           i    == Min(n, got)
       IN  [t |-> SubSeq(c, 1, i), err |-> Nil,
            rd |-> [rd EXCEPT !.buf = SubSeq(c, i + 1, got),
                              !.chunks = rest]]

RECURSIVE readLoop(_, _, _, _)
\* The loop of readFromBuffer: p = append(p[:n], t[:i]...), n += i, until
\* n == l or an error
readLoop(l, p, n, rd) ==
  LET r == Read(rd, l)
  IN  IF r.err # Nil
      THEN [st |-> IF r.err.kind = "wait" THEN "blocked" ELSE "err",
            p |-> <<>>, err |-> r.err, rd |-> r.rd]
      ELSE LET q == SubSeq(p, 1, n) \o r.t
               m == n + Len(r.t)
           IN  IF m = l THEN [st |-> "ok", p |-> q, err |-> Nil, rd |-> r.rd]
               ELSE readLoop(l, q, m, r.rd)

\* readFromBuffer(b, l): "ok" with the bytes, "err" with the error, or
\* "blocked" when it waits for the transport for ever
readFromBuffer(rd, l) ==
  IF Len(rd.buf) >= l
  THEN [st |-> "ok", p |-> SubSeq(rd.buf, 1, l), err |-> Nil,
        rd |-> [rd EXCEPT !.buf = SubSeq(@, l + 1, Len(@))]]
  ELSE readLoop(l, [i \in 1..l |-> 0], 0, rd)

(***************************************************************************)
(* Bounds of the model.                                                    *)
(***************************************************************************)
MaxOps == 2        \* user operations started on the socket under test
MaxInject == 1     \* frames a non-library peer puts on the wire
MaxFaults == 1     \* transport faults (deadline expiry, broken pipe)
ChunkBytes == 2    \* bytes a partial transport write delivers
PairOps == 2       \* user operations of one end when both ends are sockets
LiveOps == 1       \* user operations in the fair specification
LiveInject == 1    \* injected frames in the fair specification
PingOps == 1       \* user operations when a PingHandler may be set
PingInject == 2    \* injected frames when a PingHandler may be set
BothOps == 1       \* user operations started on each end when both call

(***************************************************************************)
(* The two ends of one connection.  "c" was returned by Dial (server =     *)
(* false), "s" by Upgrade (server = true).  An end that is not a library   *)
(* socket is an arbitrary peer that writes bytes of its choosing.          *)
(***************************************************************************)
E == {"c", "s"}
Peer(e) == IF e = "c" THEN "s" ELSE "c"
server(e) == e = "s"

\* Goroutines of one socket: the one that runs Listen and one that calls
\* Write, Close, CloseWithError and TCPClose.
Users == {"u1"}
Threads == {"rd"} \cup Users

\* randomByteSlice(1): four random bytes
Keys == {<<255, 0, 170, 85>>}

\* Arguments the user goroutines pass to Write: a Text message, and an
\* opcode that is not defined (3)
UserWrites == {<<OpcodeText, <<7>>>>, <<3, <<7>>>>}

\* Messages sent to a peer that is a socket of the library
PairWrites == {<<OpcodeText, <<7>>>>, <<OpcodeBinary, <<8, 9>>>>}
UserCloseErrors == {CloseError(CloseGoingAway, <<120>>)}

VARIABLES
  lib,         \* lib[e]: e is a Socket of the library
  state,       \* Socket.state
  closeError,  \* Socket.closeError
  writeMutex,  \* Socket.writeMutex: "free" or the goroutine holding it
  wbuf,        \* Socket.buf.Writer: bytes buffered and not yet written
  werr,        \* Socket.buf.Writer: its sticky error
  connClosed,  \* number of conn.Close() calls made on this end
  wire,        \* every byte this end has put on the transport, in order
  rpos,        \* number of bytes of wire[Peer(e)] this end has consumed
  closeCalls,  \* arguments of the CloseHandler invocations, in order
  readCalls,   \* arguments of the ReadHandler invocations, in order
  pingCalls,   \* arguments of the PingHandler invocations, in order
  pongCalls,   \* arguments of the PongHandler invocations, in order
  th,          \* th[e][t]: program counter and locals of goroutine t
  budget,      \* user operations that may be started on e
  used,        \* user operations started on e
  sent,        \* arguments of the Write calls of the user goroutines of e
  userCalls,   \* the calls of the user goroutines of e and the returns of
               \* their Writes, in order: the name and the number of bytes
               \* the read loop had consumed then (history)
  inj,         \* frames the arbitrary peer may still send
  faults,      \* transport faults that may still happen
  CloseDelay,  \* Socket.CloseDelay
  PingHandler, \* Socket.PingHandler is set (not nil)
  hs,          \* the call of Upgrade or Dial made, with its result
  call         \* the call of a function of the codec made, with its result

vars == <<lib, state, closeError, writeMutex, wbuf, werr, connClosed, wire,
          rpos, closeCalls, readCalls, pingCalls, pongCalls, th, budget,
          used, sent,
          userCalls, inj, faults, CloseDelay, PingHandler, hs, call>>

userVars == <<used, sent, userCalls>>

envVars == <<lib, budget, inj, faults, CloseDelay, PingHandler, hs, call>>

\* What the handlers of inbound frames were called with.  ReadHandler,
\* PongHandler and CloseHandler are set, so that their invocations show.
inCalls == <<readCalls, pingCalls, pongCalls>>

\* Locals of a goroutine: op the operation it runs, (o, p) the arguments of
\* Write, b the encoded frame, rv the value Write returns, (f, err) what
\* newFrame returned, ferr the error of Flush, ce the argument of
\* CloseWithError, wret and tret where Write and TCPClose return to, obs the
\* state the read loop read after newFrame, wobs the state Write read.
\* alone is history: no other goroutine of
\* the socket has taken a step since this one started its current operation
\* (for the read loop: since newFrame returned).
Thread0(pc) ==
  [pc |-> pc, op |-> "none", o |-> 0, p |-> <<>>, b |-> <<>>, rv |-> Nil,
   err |-> Nil, ferr |-> Nil, f |-> NoFrame, ce |-> Nil, wret |-> "none",
   tret |-> "none", obs |-> stateOpened, wobs |-> stateOpened,
   alone |-> FALSE]

Quiescent(e, u) == th[e][u].pc \in {"off", "idle", "R_dec", "done"}

OthersQuiescent(e, t) == \A u \in Threads \ {t} : Quiescent(e, u)

\* Goroutine t of e moves to the locals r.
Go(e, t, r) ==
  th' = [th EXCEPT ![e] =
           [u \in Threads |->
              IF u = t THEN r ELSE [th[e][u] EXCEPT !.alone = FALSE]]]

At(e, t, pc) == lib[e] /\ th[e][t].pc = pc

\* The locals of goroutine t when a call returns to pc: the locals of a
\* finished operation are dead, and so are those of a finished iteration
\* of the read loop.  When Listen returns, what its last iteration decoded
\* and did is kept as history.
Return(e, t, pc) ==
  IF pc = "idle" THEN Thread0(pc)
  ELSE IF pc = "R_dec" THEN [Thread0(pc) EXCEPT !.op = "Listen"]
  ELSE IF pc = "done"
  THEN [Thread0(pc) EXCEPT !.op = "Listen", !.f = th[e][t].f,
          !.err = th[e][t].err, !.ferr = th[e][t].ferr,
          !.wret = th[e][t].wret, !.obs = th[e][t].obs,
          !.alone = th[e][t].alone]
  ELSE [th[e][t] EXCEPT !.pc = pc]

\* No opening handshake is in progress
NoHandshake == [phase |-> "none"]

\* No function of the codec has been called
NoCall == [fn |-> "none"]

InitSocket ==
  /\ state = [e \in E |-> stateOpened]
  /\ closeError = [e \in E |-> Nil]
  /\ writeMutex = [e \in E |-> "free"]
  /\ wbuf = [e \in E |-> <<>>]
  /\ werr = [e \in E |-> Nil]
  /\ connClosed = [e \in E |-> 0]
  /\ wire = [e \in E |-> <<>>]
  /\ rpos = [e \in E |-> 0]
  /\ closeCalls = [e \in E |-> <<>>]
  /\ readCalls = [e \in E |-> <<>>]
  /\ pingCalls = [e \in E |-> <<>>]
  /\ pongCalls = [e \in E |-> <<>>]
  /\ hs = NoHandshake
  /\ call = NoCall
  /\ used = [e \in E |-> 0]
  /\ sent = [e \in E |-> <<>>]
  /\ userCalls = [e \in E |-> <<>>]
  /\ th = [e \in E |->
             [t \in Threads |-> Thread0(IF t = "rd" THEN "off" ELSE "idle")]]

\* Servers run with CloseDelay 0, clients with a CloseDelay of one second.
ClientDelay == [e \in E |-> IF e = "c" THEN 1 ELSE 0]

\* No socket has a PingHandler: Pings are answered by defaultPingHandler
NoPingHandler == [e \in E |-> FALSE]

\* One socket, client or server, against an arbitrary peer.
Init ==
  /\ InitSocket
  /\ \E a \in E :
       /\ lib = [e \in E |-> e = a]
       /\ budget = [e \in E |-> IF e = a THEN MaxOps ELSE 0]
  /\ inj = MaxInject
  /\ faults = MaxFaults
  /\ CloseDelay = ClientDelay
  /\ PingHandler = NoPingHandler

\* A faulty Write that masks no frame (C35 detects it)
WriteKeysUnmasked(e) == {<<>>}

\* The keys Write can give the frame: `if !s.server { f.key =
\* randomByteSlice(1) }`, four random bytes for a client, none for a server
WriteKeys(e) == IF server(e) THEN {<<>>} ELSE Keys

(***************************************************************************)
(* Socket.Write                                                            *)
(***************************************************************************)
\* A faulty Write that does not look at the state (C3 detects it)
WriteCheckedAnyState(e, t, k) ==
  LET enc == toBytes(Frame(TRUE, th[e][t].o, FALSE, 0, k, th[e][t].p))
  IN  IF enc.err # Nil
      THEN [th[e][t] EXCEPT !.pc = "W_unlock", !.rv = enc.err,
                            !.wobs = state[e]]
      ELSE [th[e][t] EXCEPT !.pc = "W_flush", !.b = enc.b, !.wobs = state[e]]

\* The locals after `if s.state == stateClosed`, building the frame with
\* key k and f.toBytes().
WriteChecked(e, t, k) ==
  LET enc == toBytes(Frame(TRUE, th[e][t].o, FALSE, 0, k, th[e][t].p))
  IN  IF state[e] = stateClosed
      THEN [th[e][t] EXCEPT !.pc = "W_unlock", !.rv = ErrSocketClosed,
                            !.wobs = state[e]]
      ELSE IF enc.err # Nil
      THEN [th[e][t] EXCEPT !.pc = "W_unlock", !.rv = enc.err,
                            !.wobs = state[e]]
      ELSE [th[e][t] EXCEPT !.pc = "W_flush", !.b = enc.b, !.wobs = state[e]]

\* A faulty Write that does not wait for the mutex (C4 detects it)
WriteBeginUnlocked(e, t) ==
  /\ At(e, t, "W_lock")
  /\ writeMutex' = [writeMutex EXCEPT ![e] = t]
  /\ \E k \in WriteKeys(e) :
       /\ Go(e, t, WriteChecked(e, t, k))
       /\ wbuf' = [wbuf EXCEPT ![e] =
                     IF WriteChecked(e, t, k).pc = "W_flush" /\ werr[e] = Nil
                     THEN @ \o WriteChecked(e, t, k).b ELSE @]
  /\ UNCHANGED <<envVars, userVars, state, closeError, werr, connClosed, wire,
                 rpos, closeCalls, inCalls>>

\* Write from s.writeMutex.Lock() to s.buf.Write(b).  Taking the mutex
\* commutes with what the other goroutines do until the state is read, and
\* the buffered writer is touched under the mutex only, so this is one step
\* at the read of s.state.  buf.Write is a no-op once the writer has an
\* error.
WriteBegin(e, t) ==
  /\ At(e, t, "W_lock")
  /\ writeMutex[e] = "free"
  /\ writeMutex' = [writeMutex EXCEPT ![e] = t]
  /\ \E k \in WriteKeys(e) :
       /\ Go(e, t, WriteChecked(e, t, k))
       /\ wbuf' = [wbuf EXCEPT ![e] =
                     IF WriteChecked(e, t, k).pc = "W_flush" /\ werr[e] = Nil
                     THEN @ \o WriteChecked(e, t, k).b ELSE @]
  /\ UNCHANGED <<envVars, userVars, state, closeError, werr, connClosed, wire,
                 rpos, closeCalls, inCalls>>

\* A faulty Write that never sets the state Closing (C8 detects it)
AfterFlushNoClosing(o) == "W_unlock"

\* Where Write goes after a successful flush
AfterFlush(o) == IF o = OpcodeClose THEN "W_st" ELSE "W_unlock"

\* s.buf.Flush() hands every buffered byte to the transport
FlushOk(e, t) ==
  /\ At(e, t, "W_flush")
  /\ werr[e] = Nil
  /\ connClosed[e] = 0
  /\ wire' = [wire EXCEPT ![e] = @ \o wbuf[e]]
  /\ wbuf' = [wbuf EXCEPT ![e] = <<>>]
  /\ Go(e, t, [th[e][t] EXCEPT !.pc = AfterFlush(th[e][t].o)])
  /\ UNCHANGED <<envVars, userVars, state, closeError, writeMutex, werr,
                 connClosed, rpos, closeCalls, inCalls>>

\* The transport first takes ChunkBytes bytes of the frame only; Flush is
\* still running
FlushPart(e, t) ==
  /\ At(e, t, "W_flush")
  /\ werr[e] = Nil
  /\ connClosed[e] = 0
  /\ wbuf[e] = th[e][t].b
  /\ Len(wbuf[e]) > ChunkBytes
  /\ wire' = [wire EXCEPT ![e] = @ \o SubSeq(wbuf[e], 1, ChunkBytes)]
  /\ wbuf' = [wbuf EXCEPT ![e] = SubSeq(@, ChunkBytes + 1, Len(@))]
  /\ Go(e, t, th[e][t])
  /\ UNCHANGED <<envVars, userVars, state, closeError, writeMutex, werr,
                 connClosed, rpos, closeCalls, inCalls>>

\* Flush returns an error for certain: the writer's earlier error or a write
\* on the connection this end has closed
FlushMustFail(e) == werr[e] # Nil \/ connClosed[e] > 0

\* Flush can return an error: also when the peer has closed the connection
\* or on a transport fault (write deadline)
FlushMayFail(e) == FlushMustFail(e) \/ connClosed[Peer(e)] > 0 \/ faults > 0

FlushFail(e, t) ==
  /\ At(e, t, "W_flush")
  /\ FlushMayFail(e)
  /\ faults' = IF FlushMustFail(e) \/ connClosed[Peer(e)] > 0 THEN faults
               ELSE faults - 1
  /\ werr' = [werr EXCEPT ![e] = IF @ # Nil THEN @ ELSE OpError("write")]
  /\ Go(e, t, [th[e][t] EXCEPT !.pc = "W_ferr", !.ferr = werr'[e]])
  /\ UNCHANGED <<lib, PingHandler, hs, call, budget, inj, CloseDelay, userVars, state, closeError,
                 writeMutex, wbuf, connClosed, wire, rpos, closeCalls,
                 inCalls>>

\* A faulty Write that goes on after TCPClose as if the flush had
\* succeeded (C10 detects it)
WriteFlushErrGoesOn(e, t) ==
  /\ At(e, t, "W_ferr")
  /\ closeError' = [closeError EXCEPT ![e] = th[e][t].ferr]
  /\ Go(e, t, [th[e][t] EXCEPT !.pc = "T_chk",
                               !.tret = IF th[e][t].o = OpcodeClose
                                        THEN "W_st" ELSE "W_unlock",
                               !.rv = Nil])
  /\ UNCHANGED <<envVars, userVars, state, writeMutex, wbuf, werr, connClosed,
                 wire, rpos, closeCalls, inCalls>>

\* s.closeError = err, then s.TCPClose() and return nil
WriteFlushErr(e, t) ==
  /\ At(e, t, "W_ferr")
  /\ closeError' = [closeError EXCEPT ![e] = th[e][t].ferr]
  /\ Go(e, t, [th[e][t] EXCEPT !.pc = "T_chk", !.tret = "W_unlock",
                               !.rv = Nil])
  /\ UNCHANGED <<envVars, userVars, state, writeMutex, wbuf, werr, connClosed,
                 wire, rpos, closeCalls, inCalls>>

\* if f.opcode == OpcodeClose { s.state = stateClosing }
WriteSetClosing(e, t) ==
  /\ At(e, t, "W_st")
  /\ state' = [state EXCEPT ![e] = stateClosing]
  /\ Go(e, t, [th[e][t] EXCEPT !.pc = "W_unlock"])
  /\ UNCHANGED <<envVars, userVars, closeError, writeMutex, wbuf, werr,
                 connClosed, wire, rpos, closeCalls, inCalls>>

\* defer s.writeMutex.Unlock(), and Write returns to its caller.  The
\* return of a call of a user goroutine is added to userCalls (history,
\* kept where both ends are sockets of the library).
WriteUnlock(e, t) ==
  /\ At(e, t, "W_unlock")
  /\ writeMutex' = [writeMutex EXCEPT ![e] = "free"]
  /\ Go(e, t, Return(e, t, th[e][t].wret))
  /\ userCalls' = [userCalls EXCEPT ![e] =
                     IF lib[Peer(e)] /\ th[e][t].wret = "idle"
                     THEN Append(@, <<"return", rpos[e]>>) ELSE @]
  /\ UNCHANGED <<envVars, used, sent, state, closeError, wbuf, werr,
                 connClosed, wire, rpos, closeCalls, inCalls>>

(***************************************************************************)
(* Socket.TCPClose and Socket.tcpClose                                     *)
(***************************************************************************)
\* if s.state == stateClosed { return }
TcpCheck(e, t) ==
  /\ At(e, t, "T_chk")
  /\ Go(e, t, IF state[e] = stateClosed THEN Return(e, t, th[e][t].tret)
              ELSE [th[e][t] EXCEPT !.pc = "T_set"])
  /\ UNCHANGED <<envVars, userVars, state, closeError, writeMutex, wbuf, werr,
                 connClosed, wire, rpos, closeCalls, inCalls>>

\* s.state = stateClosed; s.conn.Close().  A goroutine that sees the new
\* state does not touch the connection, so the two are one step.
TcpSet(e, t) ==
  /\ At(e, t, "T_set")
  /\ state' = [state EXCEPT ![e] = stateClosed]
  /\ connClosed' = [connClosed EXCEPT ![e] = @ + 1]
  /\ Go(e, t, [th[e][t] EXCEPT !.pc = "T_call"])
  /\ UNCHANGED <<envVars, userVars, closeError, writeMutex, wbuf, werr, wire,
                 rpos, closeCalls, inCalls>>

\* s.callCloseHandler(s.closeError)
TcpCall(e, t) ==
  /\ At(e, t, "T_call")
  /\ closeCalls' = [closeCalls EXCEPT ![e] = Append(@, closeError[e])]
  /\ Go(e, t, Return(e, t, th[e][t].tret))
  /\ UNCHANGED <<envVars, userVars, state, closeError, writeMutex, wbuf, werr,
                 connClosed, wire, rpos, inCalls>>

\* tcpClose: return when closed, wait for CloseDelay, then TCPClose
DelayCheck(e, t) ==
  /\ At(e, t, "D_chk")
  /\ Go(e, t, IF state[e] = stateClosed THEN Return(e, t, "done")
              ELSE [th[e][t] EXCEPT
                      !.pc = IF CloseDelay[e] > 0 THEN "D_wait" ELSE "T_chk",
                      !.tret = "done"])
  /\ UNCHANGED <<envVars, userVars, state, closeError, writeMutex, wbuf, werr,
                 connClosed, wire, rpos, closeCalls, inCalls>>

\* <-t.C
DelayWait(e, t) ==
  /\ At(e, t, "D_wait")
  /\ Go(e, t, [th[e][t] EXCEPT !.pc = "T_chk"])
  /\ UNCHANGED <<envVars, userVars, state, closeError, writeMutex, wbuf, werr,
                 connClosed, wire, rpos, closeCalls, inCalls>>

(***************************************************************************)
(* Socket.CloseWithError, Socket.Close                                     *)
(***************************************************************************)
\* The locals of goroutine t entering Write(OpcodeClose, b) from
\* CloseWithError(c), to continue at ret when Write returns.
CloseWithErrorCall(e, t, c, ret) ==
  [th[e][t] EXCEPT !.pc = "W_lock", !.o = OpcodeClose, !.p = ToBytes(c).b,
                   !.ce = c, !.wret = ret]

(***************************************************************************)
(* Socket.Listen, Socket.read                                              *)
(***************************************************************************)
Listen(e) ==
  /\ At(e, "rd", "off")
  /\ Go(e, "rd", [Thread0("R_dec") EXCEPT !.op = "Listen"])
  /\ UNCHANGED <<envVars, userVars, state, closeError, writeMutex, wbuf, werr,
                 connClosed, wire, rpos, closeCalls, inCalls>>

\* The bytes of the peer this end has not consumed yet
Unread(e) == SubSeq(wire[Peer(e)], rpos[e] + 1, Len(wire[Peer(e)]))

\* What newFrame(s.buf.Reader) can return now: a frame, the CloseError of
\* the decoder, io.EOF once the peer has closed and the bytes run out, a
\* *net.OpError on a connection this end has closed or on a read deadline,
\* or another transport error.  n: bytes consumed, fl: faults used.
ReadOutcomes(e) ==
  LET d == newFrame(Unread(e)) IN
    (IF d.st = "ok"
     THEN {[f |-> d.f, err |-> Nil, n |-> d.n, fl |-> 0]} ELSE {})
    \cup
    (IF d.st = "cerr"
     THEN {[f |-> NoFrame, err |-> d.e, n |-> d.n, fl |-> 0]} ELSE {})
    \cup
    (IF d.st = "need" /\ connClosed[Peer(e)] > 0
     THEN {[f |-> NoFrame, err |-> EOF, n |-> Len(Unread(e)), fl |-> 0]}
     ELSE {})
    \cup
    (IF connClosed[e] > 0
     THEN {[f |-> NoFrame, err |-> OpError("read"), n |-> 0, fl |-> 0]}
     ELSE {})
    \cup
    (IF d.st = "need" /\ connClosed[e] = 0 /\ faults > 0
     THEN {[f |-> NoFrame, err |-> x, n |-> 0, fl |-> 1] :
             x \in {OpError("read"), ErrOther}}
     ELSE {})

\* A faulty read loop that does not test the state after newFrame (C34
\* detects it)
ReadCheckedAnyState(e, r) ==
  [th[e]["rd"] EXCEPT !.pc = "R_disp", !.f = r.f, !.err = r.err,
     !.obs = state[e], !.alone = OthersQuiescent(e, "rd")]

\* The locals of the read loop after `if s.state == stateClosed { break
\* Read }`, newFrame having returned r
ReadChecked(e, r) ==
  IF state[e] = stateClosed THEN Thread0("done")
  ELSE [th[e]["rd"] EXCEPT !.pc = "R_disp", !.f = r.f, !.err = r.err,
          !.obs = state[e], !.alone = OthersQuiescent(e, "rd")]

\* f, err := newFrame(s.buf.Reader); if s.state == stateClosed { break Read }
\* The return of newFrame commutes with what the other goroutines do until
\* the state is read, so this is one step at the read of s.state.
ReadFrame(e) ==
  /\ At(e, "rd", "R_dec")
  /\ \E r \in ReadOutcomes(e) :
       /\ rpos' = [rpos EXCEPT ![e] = @ + r.n]
       /\ faults' = faults - r.fl
       /\ Go(e, "rd", ReadChecked(e, r))
  /\ UNCHANGED <<lib, PingHandler, hs, call, budget, inj, CloseDelay, userVars, state, closeError,
                 writeMutex, wbuf, werr, connClosed, wire, closeCalls,
                 inCalls>>

\* A faulty read loop that lets a client take masked frames (C12 detects
\* it)
ReadViolationMaskedToClient(e, f, err) ==
  IF err.kind = "CloseError" THEN err
  ELSE IF err.kind \in {"EOF", "OpError"} THEN Nil
  ELSE IF err # Nil THEN CloseError(CloseProtocolError, StrProtocolError)
  ELSE IF server(e) /\ ~f.masked
  THEN CloseError(CloseProtocolError, StrExpectedMasked)
  ELSE Nil

\* A faulty read loop that answers a *net.OpError with a protocol error
\* (C9 detects it)
ReadViolationOnOpError(e, f, err) ==
  IF err.kind = "CloseError" THEN err
  ELSE IF err.kind = "EOF" THEN Nil
  ELSE IF err # Nil THEN CloseError(CloseProtocolError, StrProtocolError)
  ELSE IF server(e) /\ ~f.masked
  THEN CloseError(CloseProtocolError, StrExpectedMasked)
  ELSE IF ~server(e) /\ f.masked
  THEN CloseError(CloseProtocolError, StrExpectedNotMasked)
  ELSE Nil

\* The CloseError the read loop passes to CloseWithError for the decoded
\* (f, err), Nil when it does not call CloseWithError.
ReadViolation(e, f, err) ==
  IF err.kind = "CloseError" THEN err
  ELSE IF err.kind \in {"EOF", "OpError"} THEN Nil
  ELSE IF err # Nil THEN CloseError(CloseProtocolError, StrProtocolError)
  ELSE IF server(e) /\ ~f.masked
  THEN CloseError(CloseProtocolError, StrExpectedMasked)
  ELSE IF ~server(e) /\ f.masked
  THEN CloseError(CloseProtocolError, StrExpectedNotMasked)
  ELSE Nil

AbnormalClosure == CloseError(CloseAbnormalClosure, StrAbnormalClosure)

\* The read loop goes back to newFrame
ReadAgain == [Thread0("R_dec") EXCEPT !.op = "Listen"]

\* A faulty callPingHandler that goes on to defaultPingHandler after the
\* user's handler (C13 detects it)
ReadDispatchedPongAlways(e) ==
  LET me == th[e]["rd"]
      f == me.f
      v == ReadViolation(e, f, me.err)
  IN  IF v # Nil THEN CloseWithErrorCall(e, "rd", v, "done")
      ELSE IF me.err # Nil THEN [me EXCEPT !.pc = "T_chk", !.tret = "done"]
      ELSE IF f.opcode = OpcodePing
      THEN [me EXCEPT !.pc = "W_lock", !.o = OpcodePong, !.p = f.payload,
                      !.wret = "R_dec"]
      ELSE IF f.opcode = OpcodeClose THEN [me EXCEPT !.pc = "R_cl"]
      ELSE [Thread0("R_dec") EXCEPT !.op = "Listen"]

\* The locals of the read loop after it has acted on (f, err)
ReadDispatched(e) ==
  LET me == th[e]["rd"]
      f == me.f
      v == ReadViolation(e, f, me.err)
  IN  IF v # Nil THEN CloseWithErrorCall(e, "rd", v, "done")
      ELSE IF me.err # Nil THEN [me EXCEPT !.pc = "T_chk", !.tret = "done"]
      ELSE IF f.opcode = OpcodePing /\ ~PingHandler[e]
      THEN [me EXCEPT !.pc = "W_lock", !.o = OpcodePong, !.p = f.payload,
                      !.wret = "R_dec"]
      ELSE IF f.opcode = OpcodeClose THEN [me EXCEPT !.pc = "R_cl"]
      ELSE ReadAgain

\* A faulty read loop that keeps the memoed closeError when a Close frame
\* arrives (C7 detects it)
ReadCloseErrorKeepsMemo(e) ==
  LET me == th[e]["rd"]
      v == ReadViolation(e, me.f, me.err)
  IN  IF v # Nil THEN v
      ELSE IF me.err # Nil THEN AbnormalClosure
      ELSE closeError[e]

\* s.closeError after the read loop has acted on (f, err): the argument of
\* CloseWithError, the abnormal closure, or the CloseError decoded from
\* the payload of a Close frame
ReadCloseError(e) ==
  LET me == th[e]["rd"]
      v == ReadViolation(e, me.f, me.err)
  IN  IF v # Nil THEN v
      ELSE IF me.err # Nil THEN AbnormalClosure
      ELSE IF me.f.opcode = OpcodeClose THEN NewCloseError(me.f.payload).c
      ELSE closeError[e]

\* The read loop reaches `switch f.opcode` with a frame of one of the
\* opcodes ops
Handled(e, ops) ==
  /\ ReadViolation(e, th[e]["rd"].f, th[e]["rd"].err) = Nil
  /\ th[e]["rd"].err = Nil
  /\ th[e]["rd"].f.opcode \in ops

\* The body of the read loop after the state check, up to its first call
ReadDispatch(e) ==
  /\ At(e, "rd", "R_disp")
  /\ LET me == th[e]["rd"]
     IN  /\ closeError' = [closeError EXCEPT ![e] = ReadCloseError(e)]
         /\ readCalls' =
              [readCalls EXCEPT ![e] =
                 IF Handled(e, {OpcodeText, OpcodeBinary})
                 THEN Append(@, <<me.f.opcode, me.f.payload>>) ELSE @]
         /\ pingCalls' =
              [pingCalls EXCEPT ![e] =
                 IF Handled(e, {OpcodePing}) /\ PingHandler[e]
                 THEN Append(@, me.f.payload) ELSE @]
         /\ pongCalls' =
              [pongCalls EXCEPT ![e] =
                 IF Handled(e, {OpcodePong})
                 THEN Append(@, me.f.payload) ELSE @]
  /\ Go(e, "rd", ReadDispatched(e))
  /\ UNCHANGED <<envVars, userVars, state, writeMutex, wbuf, werr, connClosed,
                 wire, rpos, closeCalls>>

\* A faulty acknowledgement that echoes the whole payload (C5 detects it)
AckPayloadWhole(p) == IF NewCloseError(p).err = Nil THEN p ELSE <<>>

\* The payload of the acknowledgement Close frame
AckPayload(p) ==
  IF NewCloseError(p).err = Nil THEN toBytesCode(NewCloseError(p).c)
  ELSE <<>>

\* A faulty read loop that acknowledges every Close frame (C6 detects it)
ReadClosedAlwaysAcks(e) ==
  [th[e]["rd"] EXCEPT !.pc = "W_lock", !.o = OpcodeClose,
                      !.p = AckPayload(th[e]["rd"].f.payload),
                      !.wret = "D_chk"]

\* The locals of the read loop after `if s.state == stateClosing`
ReadClosed(e) ==
  IF state[e] = stateClosing
  THEN [th[e]["rd"] EXCEPT !.pc = "D_chk"]
  ELSE [th[e]["rd"] EXCEPT !.pc = "W_lock", !.o = OpcodeClose,
                           !.p = AckPayload(th[e]["rd"].f.payload),
                           !.wret = "D_chk"]

\* case OpcodeClose, after s.closeError = c: tcpClose() when the state is
\* Closing, else s.state = stateClosing and the acknowledgement
ReadClose(e) ==
  /\ At(e, "rd", "R_cl")
  /\ state' = [state EXCEPT ![e] =
                IF @ = stateClosing THEN @ ELSE stateClosing]
  /\ Go(e, "rd", ReadClosed(e))
  /\ UNCHANGED <<envVars, userVars, closeError, writeMutex, wbuf, werr,
                 connClosed, wire, rpos, closeCalls, inCalls>>

(***************************************************************************)
(* The goroutines that use the socket                                      *)
(***************************************************************************)
\* The (opcode, payload) a user goroutine passes to Write when the other
\* end is d
UserWritesTo(d) == IF lib[d] THEN PairWrites ELSE UserWrites

\* The call is added to userCalls.  The history is kept where both ends
\* are sockets of the library.
Called(e, name) ==
  userCalls' = [userCalls EXCEPT ![e] =
                  IF lib[Peer(e)] THEN Append(@, <<name, rpos[e]>>) ELSE @]

CanStart(e, u) == At(e, u, "idle") /\ used[e] < budget[e]

Started(e, u, name) ==
  [Thread0("idle") EXCEPT !.op = name, !.alone = OthersQuiescent(e, u)]

UserWrite(e, u) ==
  /\ CanStart(e, u)
  /\ \E w \in UserWritesTo(Peer(e)) :
       /\ Go(e, u, [Started(e, u, "Write") EXCEPT
                      !.pc = "W_lock", !.o = w[1], !.p = w[2],
                      !.wret = "idle"])
       /\ sent' = [sent EXCEPT ![e] = Append(@, w)]
  /\ used' = [used EXCEPT ![e] = @ + 1]
  /\ Called(e, "Write")
  /\ UNCHANGED <<envVars, state, closeError, writeMutex, wbuf, werr,
                 connClosed, wire, rpos, closeCalls, inCalls>>

\* s.closeError = e, then Write(OpcodeClose, b)
UserCloseWithError(e, u) ==
  /\ CanStart(e, u)
  /\ \E c \in UserCloseErrors :
       /\ closeError' = [closeError EXCEPT ![e] = c]
       /\ Go(e, u, [Started(e, u, "CloseWithError") EXCEPT
                      !.pc = "W_lock", !.o = OpcodeClose,
                      !.p = ToBytes(c).b, !.ce = c, !.wret = "idle"])
  /\ used' = [used EXCEPT ![e] = @ + 1]
  /\ Called(e, "CloseWithError")
  /\ UNCHANGED <<envVars, sent, state, writeMutex, wbuf, werr, connClosed,
                 wire, rpos, closeCalls, inCalls>>

NormalClosure == CloseError(CloseNormalClosure, StrNormalClosure)

UserClose(e, u) ==
  /\ CanStart(e, u)
  /\ closeError' = [closeError EXCEPT ![e] = NormalClosure]
  /\ Go(e, u, [Started(e, u, "Close") EXCEPT
                 !.pc = "W_lock", !.o = OpcodeClose,
                 !.p = ToBytes(NormalClosure).b, !.ce = NormalClosure,
                 !.wret = "idle"])
  /\ used' = [used EXCEPT ![e] = @ + 1]
  /\ Called(e, "Close")
  /\ UNCHANGED <<envVars, sent, state, writeMutex, wbuf, werr, connClosed,
                 wire, rpos, closeCalls, inCalls>>

UserTCPClose(e, u) ==
  /\ CanStart(e, u)
  /\ Go(e, u, [Started(e, u, "TCPClose") EXCEPT !.pc = "T_chk",
                                                !.tret = "idle"])
  /\ used' = [used EXCEPT ![e] = @ + 1]
  /\ Called(e, "TCPClose")
  /\ UNCHANGED <<envVars, sent, state, closeError, writeMutex, wbuf, werr,
                 connClosed, wire, rpos, closeCalls, inCalls>>

(***************************************************************************)
(* A peer that is not a library socket                                     *)
(***************************************************************************)
\* The mask key a well-behaved peer of e uses
PeerKey(e) == IF server(e) THEN <<>> ELSE <<1, 2, 3, 4>>
WrongKey(e) == IF server(e) THEN <<1, 2, 3, 4>> ELSE <<>>

ClosePayloads ==
  {ToBytes(CloseError(CloseNormalClosure, <<111, 107>>)).b,
   <<3, 133>>, <<3>>}

\* The byte strings the arbitrary end e writes
PeerWrites(e) ==
  {toBytes(Frame(TRUE, w[1], FALSE, 0, PeerKey(e), w[2])).b :
     w \in {<<OpcodeText, <<7>>>>, <<OpcodePing, <<9>>>>,
            <<OpcodePong, <<>>>>}}
  \cup {toBytes(Frame(TRUE, OpcodeClose, FALSE, 0, PeerKey(e), p)).b :
          p \in ClosePayloads}
  \cup {toBytes(Frame(TRUE, w[1], FALSE, 0, WrongKey(e), w[2])).b :
          w \in {<<OpcodeText, <<7>>>>, <<OpcodePing, <<9>>>>,
                 <<OpcodeClose, <<3, 232>>>>}}
  \cup {<<17, 0>>}

\* The read loop of e waits for bytes.  Bytes reach the reader in order, so
\* a frame sent while earlier bytes are unread, or before Listen is called,
\* is read as if it were sent when the reader asks for it.
ReaderWaits(e) == th[e]["rd"].pc = "R_dec" /\ newFrame(Unread(e)).st = "need"

Inject(e) ==
  /\ ~lib[e]
  /\ inj > 0
  /\ connClosed[e] = 0
  /\ ReaderWaits(Peer(e))
  /\ \E b \in PeerWrites(e) : wire' = [wire EXCEPT ![e] = @ \o b]
  /\ inj' = inj - 1
  /\ UNCHANGED <<lib, PingHandler, hs, call, budget, faults, CloseDelay, userVars, state, closeError,
                 writeMutex, wbuf, werr, connClosed, rpos, closeCalls,
                 inCalls, th>>

\* The arbitrary end closes the connection.  The reader of the other end
\* sees it when it next waits for bytes.
PeerClose(e) ==
  /\ ~lib[e]
  /\ connClosed[e] = 0
  /\ ReaderWaits(Peer(e))
  /\ connClosed' = [connClosed EXCEPT ![e] = 1]
  /\ UNCHANGED <<envVars, userVars, state, closeError, writeMutex, wbuf, werr,
                 wire, rpos, closeCalls, inCalls, th>>

(***************************************************************************)
(* Specifications                                                          *)
(***************************************************************************)
WriteStep(e, t) ==
  \/ WriteBegin(e, t)
  \/ FlushOk(e, t)
  \/ FlushPart(e, t)
  \/ FlushFail(e, t)
  \/ WriteFlushErr(e, t)
  \/ WriteSetClosing(e, t)
  \/ WriteUnlock(e, t)

TcpStep(e, t) ==
  \/ TcpCheck(e, t)
  \/ TcpSet(e, t)
  \/ TcpCall(e, t)
  \/ DelayCheck(e, t)
  \/ DelayWait(e, t)

ReadStep(e) ==
  \/ ReadFrame(e)
  \/ ReadDispatch(e)
  \/ ReadClose(e)

UserStep(e, u) ==
  \/ UserWrite(e, u)
  \/ UserCloseWithError(e, u)
  \/ UserClose(e, u)
  \/ UserTCPClose(e, u)

\* Every step of a goroutine already inside an operation
Run(e, t) == WriteStep(e, t) \/ TcpStep(e, t) \/ (t = "rd" /\ ReadStep(e))

SocketNext ==
  \E e \in E :
    \/ Listen(e)
    \/ ReadStep(e)
    \/ \E t \in Threads : WriteStep(e, t) \/ TcpStep(e, t)
    \/ \E u \in Users : UserStep(e, u)

Next == SocketNext \/ (\E e \in E : Inject(e) \/ PeerClose(e))

Spec == Init /\ [][Next]_vars

\* Both ends are sockets of the library: the client was returned by Dial,
\* the server by Upgrade; the user goroutine of one end calls the socket,
\* the other end only runs Listen.
InitPair ==
  /\ InitSocket
  /\ lib = [e \in E |-> TRUE]
  /\ \E a \in E : budget = [e \in E |-> IF e = a THEN PairOps ELSE 0]
  /\ inj = 0
  /\ faults = MaxFaults
  /\ CloseDelay = ClientDelay
  /\ PingHandler = NoPingHandler

SpecPair == InitPair /\ [][SocketNext]_vars

\* Both ends are sockets of the library and the user goroutine of each
\* calls its socket; the transport has no faults of its own.
InitBoth ==
  /\ InitSocket
  /\ lib = [e \in E |-> TRUE]
  /\ budget = [e \in E |-> BothOps]
  /\ inj = 0
  /\ faults = 0
  /\ CloseDelay = ClientDelay
  /\ PingHandler = NoPingHandler

SpecBoth == InitBoth /\ [][SocketNext]_vars

\* One socket against an arbitrary peer, where every goroutine that can
\* take a step eventually does: the Go scheduler runs every runnable
\* goroutine, and the ticker of tcpClose fires.
InitLive ==
  /\ InitSocket
  /\ \E a \in E :
       /\ lib = [e \in E |-> e = a]
       /\ budget = [e \in E |-> IF e = a THEN LiveOps ELSE 0]
  /\ inj = LiveInject
  /\ faults = MaxFaults
  /\ CloseDelay = ClientDelay
  /\ PingHandler = NoPingHandler

FairSpec ==
  /\ InitLive
  /\ [][Next]_vars
  /\ \A e \in E : \A t \in Threads : WF_vars(Run(e, t))

\* One socket against an arbitrary peer, with or without a PingHandler
InitPing ==
  /\ InitSocket
  /\ \E a \in E :
       /\ lib = [e \in E |-> e = a]
       /\ budget = [e \in E |-> IF e = a THEN PingOps ELSE 0]
       /\ \E h \in BOOLEAN : PingHandler = [e \in E |-> e = a /\ h]
  /\ inj = PingInject
  /\ faults = MaxFaults
  /\ CloseDelay = ClientDelay

SpecPing == InitPing /\ [][Next]_vars

(***************************************************************************)
(* Strings of the opening handshake.  A string is the sequence of its      *)
(* characters, so that prefixes, case, splitting and trimming are computed *)
(* as the code computes them.                                              *)
(***************************************************************************)
UpperCase ==
  <<"A", "B", "C", "D", "E", "F", "G", "H", "I", "J", "K", "L", "M",
    "N", "O", "P", "Q", "R", "S", "T", "U", "V", "W", "X", "Y", "Z">>

LowerCase ==
  <<"a", "b", "c", "d", "e", "f", "g", "h", "i", "j", "k", "l", "m",
    "n", "o", "p", "q", "r", "s", "t", "u", "v", "w", "x", "y", "z">>

\* strings.ToLower
ToLower(s) ==
  [i \in 1..Len(s) |->
     IF \E j \in 1..Len(UpperCase) : UpperCase[j] = s[i]
     THEN LowerCase[CHOOSE j \in 1..Len(UpperCase) : UpperCase[j] = s[i]]
     ELSE s[i]]

\* strings.HasPrefix
HasPrefix(s, p) == Len(s) >= Len(p) /\ SubSeq(s, 1, Len(p)) = p

\* strings.Index, counted from 1; 0 when p does not occur in s
Index(s, p) ==
  LET at == {i \in 1..(Len(s) - Len(p) + 1) : SubSeq(s, i, i + Len(p) - 1) = p}
  IN  IF at = {} THEN 0 ELSE CHOOSE i \in at : \A j \in at : i <= j

\* strings.Replace(s, old, "", 1): s without the first occurrence of old
Replace(s, old) ==
  LET i == Index(s, old)
  IN  IF i = 0 THEN s
      ELSE SubSeq(s, 1, i - 1) \o SubSeq(s, i + Len(old), Len(s))

RECURSIVE Split(_, _)
\* strings.Split(s, c) for a separator of one character
Split(s, c) ==
  LET i == Index(s, <<c>>)
  IN  IF i = 0 THEN <<s>>
      ELSE <<SubSeq(s, 1, i - 1)>> \o Split(SubSeq(s, i + 1, Len(s)), c)

RECURSIVE Trim(_, _)
\* strings.Trim(s, c) for a cutset of one character
Trim(s, c) ==
  IF s # <<>> /\ Head(s) = c THEN Trim(Tail(s), c)
  ELSE IF s # <<>> /\ s[Len(s)] = c THEN Trim(SubSeq(s, 1, Len(s) - 1), c)
  ELSE s

RECURSIVE Join(_, _)
\* strings.Join
Join(l, sep) ==
  IF l = <<>> THEN <<>>
  ELSE IF Len(l) = 1 THEN l[1]
  ELSE l[1] \o sep \o Join(Tail(l), sep)

\* http.Header.Get: the value of the field, "" when the field is absent
Get(h, n) == IF n \in DOMAIN h THEN h[n] ELSE <<>>

\* The alphabet of base64.StdEncoding and its padding character
Base64Alphabet ==
  <<"A", "B", "C", "D", "E", "F", "G", "H", "I", "J", "K", "L", "M",
    "N", "O", "P", "Q", "R", "S", "T", "U", "V", "W", "X", "Y", "Z",
    "a", "b", "c", "d", "e", "f", "g", "h", "i", "j", "k", "l", "m",
    "n", "o", "p", "q", "r", "s", "t", "u", "v", "w", "x", "y", "z",
    "0", "1", "2", "3", "4", "5", "6", "7", "8", "9", "+", "/">>

\* base64.StdEncoding.DecodeString: whether s decodes, and to how many
\* bytes.  s decodes when it is made of groups of four characters of the
\* alphabet, the last of which may end in one or two "=".
DecodeString(s) ==
  LET n   == Len(s)
      pad == IF n >= 2 /\ s[n] = "=" /\ s[n - 1] = "=" THEN 2
             ELSE IF n >= 1 /\ s[n] = "=" THEN 1 ELSE 0
      ok  == /\ n % 4 = 0
             /\ \A i \in 1..(n - pad) :
                  \E j \in 1..Len(Base64Alphabet) : Base64Alphabet[j] = s[i]
  IN  IF ok THEN [err |-> FALSE, len |-> 3 * (n \div 4) - pad]
      ELSE [err |-> TRUE, len |-> 0]

(***************************************************************************)
(* Values of the header fields                                             *)
(***************************************************************************)
wsVersion == <<"1", "3">>

wsAcceptSalt ==
  <<"2", "5", "8", "E", "A", "F", "A", "5", "-", "E", "9", "1", "4",
    "-", "4", "7", "D", "A", "-", "9", "5", "C", "A", "-", "C", "5",
    "A", "B", "0", "D", "C", "8", "5", "B", "1", "1">>

SWebsocket ==
  <<"w", "e", "b", "s", "o", "c", "k", "e", "t">>

SUpgrade ==
  <<"u", "p", "g", "r", "a", "d", "e">>

SHttp ==
  <<"h", "t", "t", "p", ":", "/", "/">>

SHttps ==
  <<"h", "t", "t", "p", "s", ":", "/", "/">>

\* Two challenge keys, each the base64 text of 16 bytes
SampleKey ==
  <<"d", "G", "h", "l", "I", "H", "N", "h", "b", "X", "B", "s", "Z",
    "S", "B", "u", "b", "2", "5", "j", "Z", "Q", "=", "=">>

OtherKey ==
  <<"A", "A", "E", "C", "A", "w", "Q", "F", "B", "g", "c", "I", "C",
    "Q", "o", "L", "D", "A", "0", "O", "D", "w", "=", "=">>

\* The base64 text of the SHA-1 digest of x.  SHA-1 and base64 are the
\* standard library's: for the two challenge keys followed by the salt the
\* digest is the real one, any other text has a digest of its own.
sha1Base64(x) ==
  IF x = SampleKey \o wsAcceptSalt
  THEN
    <<"s", "3", "p", "P", "L", "M", "B", "i", "T", "x", "a", "Q",
      "9", "k", "Y", "G", "z", "z", "h", "Z", "R", "b", "K", "+",
      "x", "O", "o", "=">>
  ELSE IF x = OtherKey \o wsAcceptSalt
  THEN
    <<"B", "z", "3", "q", "J", "Y", "T", "G", "d", "O", "e", "8",
      "g", "U", "S", "p", "L", "o", "s", "E", "d", "i", "L", "K",
      "D", "r", "k", "=">>
  ELSE <<"#">> \o x

makeAcceptKey(k) == sha1Base64(k \o wsAcceptSalt)

\* A faulty headerToSlice that keeps the spaces around the values (C18
\* detects it)
headerToSliceUntrimmed(v) == Split(v, ",")

\* headerToSlice: the values of a comma separated field, without the
\* spaces around them
headerToSlice(v) ==
  LET l == Split(v, ",")
  IN  [i \in 1..Len(l) |-> Trim(l[i], " ")]

\* stringExists: the position of k in l, counted from 0, or -1
stringExists(l, k) ==
  LET at == {i \in 1..Len(l) : l[i] = k}
  IN  IF at = {} THEN -1 ELSE (CHOOSE i \in at : \A j \in at : i <= j) - 1

(***************************************************************************)
(* Request.Upgrade: the server's side of the opening handshake             *)
(***************************************************************************)
StatusSwitchingProtocols == 101
StatusBadRequest == 400
StatusForbidden == 403
StatusUpgradeRequired == 426
StatusInternalServerError == 500

OpenError(reason) == [kind |-> "OpenError", Reason |-> reason]

\* A Socket as Dial and Upgrade construct it: state and closeError have
\* their zero values, stateOpened and nil.
NewSocket(srv) ==
  [kind |-> "Socket", server |-> srv, state |-> stateOpened,
   closeError |-> Nil]

\* An HTTP response: its status and its header fields.  Field names are in
\* the canonical form http.Header gives them.
Response(code, header) == [StatusCode |-> code, Header |-> header]

NoHeader == [n \in {} |-> <<>>]

\* Nothing has been written
NoResponse == Response(0, NoHeader)

\* The error a range over validations returns: that of the first
\* validation that fails, nil when none does
FirstError(errs) ==
  LET at == {i \in 1..Len(errs) : errs[i] # Nil}
  IN  IF at = {} THEN Nil ELSE errs[CHOOSE i \in at : \A j \in at : i <= j]

checkOrigin(r) ==
  LET o == Get(r.Header, "Origin")
      h == IF HasPrefix(o, SHttp) THEN Replace(o, SHttp)
           ELSE IF HasPrefix(o, SHttps) THEN Replace(o, SHttps)
           ELSE o
  IN  h = <<>> \/ h = r.Host

\* q.CheckOrigin is nil, or a predicate of the user that allows or denies
handleOrigin(q, r) ==
  LET fn == IF q.CheckOrigin = "nil" THEN checkOrigin(r)
            ELSE q.CheckOrigin = "allow"
  IN  IF ~fn THEN OpenError("failure due to origin.") ELSE Nil

validateWSVersionHeader(r) ==
  IF Get(r.Header, "Sec-Websocket-Version") # wsVersion
  THEN OpenError("upgrade required")
  ELSE Nil

\* r.ProtoAtLeast(1, 1)
validateRequestVersion(r) ==
  IF ~(r.ProtoMajor > 1 \/ (r.ProtoMajor = 1 /\ r.ProtoMinor >= 1))
  THEN OpenError("HTTP must be v1.1 or higher")
  ELSE Nil

validateRequestMethod(r) ==
  IF r.Method # "GET" THEN OpenError("HTTP method must be GET") ELSE Nil

validateRequestUpgradeHeader(r) ==
  IF ToLower(Get(r.Header, "Upgrade")) # SWebsocket
  THEN OpenError("Upgrade Header should have the value of websocket")
  ELSE Nil

validateRequestConnectionHeader(r) ==
  IF ToLower(Get(r.Header, "Connection")) # SUpgrade
  THEN OpenError("Connection Header should have the value of upgrade")
  ELSE Nil

validateRequestSecWebsocketKeyHeader(r) ==
  LET d == DecodeString(Get(r.Header, "Sec-Websocket-Key"))
  IN  IF d.err
      THEN OpenError("an error had occured while validating Sec-WebSocket-Key header")
      ELSE IF d.len # 16
      THEN OpenError("Sec-WebSocket-Key must be 16 bytes in length when decoded")
      ELSE Nil

validateRequest(r) ==
  FirstError(<<validateRequestVersion(r),
               validateRequestMethod(r),
               validateRequestUpgradeHeader(r),
               validateRequestConnectionHeader(r),
               validateRequestSecWebsocketKeyHeader(r)>>)

ClientSubProtocols(r) ==
  headerToSlice(Get(r.Header, "Sec-Websocket-Protocol"))

\* Request.upgrade.  w is the http.ResponseWriter: "hijacker" gives up its
\* connection, "plain" is no http.Hijacker, "broken" is one whose Hijack
\* fails.  resp is what upgrade writes on the connection.
upgrade(q, r, w) ==
  IF w = "plain"
  THEN [s |-> Nil, resp |-> NoResponse,
        err |-> OpenError("assertion failed with current http.ResponseWriter instance")]
  ELSE IF w = "broken"
  THEN [s |-> Nil, resp |-> NoResponse, err |-> ErrOther]
  ELSE LET base == ("Upgrade" :> SWebsocket)
                   @@ ("Connection" :> SUpgrade)
                   @@ ("Sec-Websocket-Version" :> wsVersion)
           sub  == IF /\ q.SubProtocol # <<>>
                      /\ stringExists(ClientSubProtocols(r), q.SubProtocol) # -1
                   THEN "Sec-Websocket-Protocol" :> q.SubProtocol
                   ELSE NoHeader
           acc  == "Sec-Websocket-Accept"
                     :> makeAcceptKey(Get(r.Header, "Sec-Websocket-Key"))
       IN  [s |-> NewSocket(TRUE), err |-> Nil,
            resp |-> Response(StatusSwitchingProtocols, base @@ sub @@ acc)]

\* A faulty Upgrade that checks the version before the origin (C16 detects
\* it)
UpgradeVersionFirst(q, r, w) ==
  LET o == handleOrigin(q, r)
      v == validateWSVersionHeader(r)
      b == validateRequest(r)
      u == upgrade(q, r, w)
      Refuse(e, code, header, ran) ==
        [s |-> Nil, err |-> e, resp |-> Response(code, header), ran |-> ran]
  IN  IF v # Nil
      THEN Refuse(v, StatusUpgradeRequired,
                  "Sec-Websocket-Version" :> wsVersion,
                  <<"validateWSVersionHeader">>)
      ELSE IF o # Nil
      THEN Refuse(o, StatusForbidden, NoHeader,
                  <<"validateWSVersionHeader", "handleOrigin">>)
      ELSE IF b # Nil
      THEN Refuse(b, StatusBadRequest, NoHeader,
                  <<"validateWSVersionHeader", "handleOrigin",
                    "validateRequest">>)
      ELSE IF u.err # Nil
      THEN Refuse(u.err, StatusInternalServerError, NoHeader,
                  <<"validateWSVersionHeader", "handleOrigin",
                    "validateRequest", "upgrade">>)
      ELSE [s |-> u.s, err |-> Nil, resp |-> u.resp,
            ran |-> <<"validateWSVersionHeader", "handleOrigin",
                      "validateRequest", "upgrade">>]

\* Request.Upgrade.  The result holds the Socket and the error returned, the
\* response the client gets (http.Error's on a failure, upgrade's
\* otherwise) and, in ran, the steps Upgrade went through.
Upgrade(q, r, w) ==
  LET o == handleOrigin(q, r)
      v == validateWSVersionHeader(r)
      b == validateRequest(r)
      u == upgrade(q, r, w)
      Refuse(e, code, header, ran) ==
        [s |-> Nil, err |-> e, resp |-> Response(code, header), ran |-> ran]
  IN  IF o # Nil
      THEN Refuse(o, StatusForbidden, NoHeader, <<"handleOrigin">>)
      ELSE IF v # Nil
      THEN Refuse(v, StatusUpgradeRequired,
                  "Sec-Websocket-Version" :> wsVersion,
                  <<"handleOrigin", "validateWSVersionHeader">>)
      ELSE IF b # Nil
      THEN Refuse(b, StatusBadRequest, NoHeader,
                  <<"handleOrigin", "validateWSVersionHeader",
                    "validateRequest">>)
      ELSE IF u.err # Nil
      THEN Refuse(u.err, StatusInternalServerError, NoHeader,
                  <<"handleOrigin", "validateWSVersionHeader",
                    "validateRequest", "upgrade">>)
      ELSE [s |-> u.s, err |-> Nil, resp |-> u.resp,
            ran |-> <<"handleOrigin", "validateWSVersionHeader",
                      "validateRequest", "upgrade">>]

(***************************************************************************)
(* The client's side of the opening handshake                              *)
(***************************************************************************)
\* strings.HasSuffix
HasSuffix(s, p) ==
  Len(s) >= Len(p) /\ SubSeq(s, Len(s) - Len(p) + 1, Len(s)) = p

\* The port parseURLHost gives a ws URL that names none
SDefaultPort == <<":", "2", "2">>

(***************************************************************************)
(* dialer_utils.go: parseURL                                               *)
(***************************************************************************)
SWs == <<"w", "s">>

SWss == <<"w", "s", "s">>

SSchemeSeparator == <<":", "/", "/">>

\* The port parseURLHost gives a wss URL that names none
SDefaultPortTLS == <<":", "4", "4", "3">>

Letters ==
  {UpperCase[i] : i \in 1..Len(UpperCase)}
    \cup {LowerCase[i] : i \in 1..Len(LowerCase)}

Digits == {"0", "1", "2", "3", "4", "5", "6", "7", "8", "9"}

\* errors.New(s)
ErrorString(s) == [kind |-> "errorString", Msg |-> s]

NoURL == [Scheme |-> <<>>, Host |-> <<>>, Path |-> <<>>]

schemeValid(s) == s = SWs \/ s = SWss

\* The submatch of the regular expression ^([a-zA-Z]+):// in u, <<>> when
\* it does not match: the letters u starts with, when "://" follows them
SchemeMatch(u) ==
  LET n == CHOOSE k \in 0..Len(u) :
             /\ \A i \in 1..k : u[i] \in Letters
             /\ k < Len(u) => u[k + 1] \notin Letters
  IN  IF n >= 1 /\ HasPrefix(SubSeq(u, n + 1, Len(u)), SSchemeSeparator)
      THEN SubSeq(u, 1, n)
      ELSE <<>>

\* parseURLScheme: the string it leaves in *u and the error it returns
parseURLScheme(u) ==
  LET m == SchemeMatch(u)
  IN  IF m = <<>>
      THEN [u |-> SWs \o SSchemeSeparator \o u, err |-> Nil]
      ELSE IF ~schemeValid(m)
      THEN [u |-> u, err |-> ErrorString(<<"i", "n", "v", "a", "l", "i", "d", " ", "s", "c", "h", "e", "m", "e", ":", " ">> \o m)]
      ELSE [u |-> u, err |-> Nil]

\* net/url validOptionalPort: nothing, or a colon and digits (none allowed)
validOptionalPort(p) ==
  \/ p = <<>>
  \/ /\ p[1] = ":"
     /\ \A i \in 2..Len(p) : p[i] \in Digits

\* The last position of c in s, 0 when there is none
LastIndex(s, c) ==
  LET at == {i \in 1..Len(s) : s[i] = c}
  IN  IF at = {} THEN 0 ELSE CHOOSE i \in at : \A j \in at : j <= i

\* net/url parseHost: whether the host is accepted
validHost(h) ==
  IF HasPrefix(h, <<"[">>)
  THEN /\ LastIndex(h, "]") # 0
       /\ validOptionalPort(SubSeq(h, LastIndex(h, "]") + 1, Len(h)))
  ELSE LastIndex(h, ":") # 0
         => validOptionalPort(SubSeq(h, LastIndex(h, ":"), Len(h)))

\* url.Parse on a string that starts with a scheme and "://", as every
\* string parseURLScheme leaves does: the scheme in lower case, the host up
\* to the first "/", and the path
urlParse(u) ==
  LET c    == Index(u, SSchemeSeparator)
      rest == SubSeq(u, c + 3, Len(u))
      s    == Index(rest, <<"/">>)
      host == IF s = 0 THEN rest ELSE SubSeq(rest, 1, s - 1)
      path == IF s = 0 THEN <<>> ELSE SubSeq(rest, s, Len(rest))
  IN  IF ~validHost(host)
      THEN [l |-> NoURL, err |-> ErrorString(<<"i", "n", "v", "a", "l", "i", "d", " ", "p", "o", "r", "t">>)]
      ELSE [l |-> [Scheme |-> ToLower(SubSeq(u, 1, c - 1)), Host |-> host,
                   Path |-> path],
            err |-> Nil]

\* The regular expression :(\d+) matches somewhere in h
PortMatch(h) == \E i \in 1..(Len(h) - 1) : h[i] = ":" /\ h[i + 1] \in Digits

\* A faulty parseURLHost that never adds a port (C28 detects it)
parseURLHostAsGiven(l) ==
  IF ~schemeValid(l.Scheme)
  THEN [l |-> l, err |-> ErrorString(<<"i", "n", "v", "a", "l", "i", "d", " ", "s", "c", "h", "e", "m", "e", ":", " ">> \o l.Scheme)]
  ELSE [l |-> l, err |-> Nil]

\* parseURLHost: the URL it leaves and the error it returns
parseURLHost(l) ==
  IF ~schemeValid(l.Scheme)
  THEN [l |-> l, err |-> ErrorString(<<"i", "n", "v", "a", "l", "i", "d", " ", "s", "c", "h", "e", "m", "e", ":", " ">> \o l.Scheme)]
  ELSE IF PortMatch(l.Host) THEN [l |-> l, err |-> Nil]
  ELSE [l |-> [l EXCEPT !.Host = @ \o (IF l.Scheme = SWs THEN SDefaultPort
                                       ELSE SDefaultPortTLS)],
        err |-> Nil]

\* (*url.URL, error)
parseURL(u) ==
  LET s == parseURLScheme(u)
      p == urlParse(s.u)
      h == parseURLHost(p.l)
  IN  IF s.err # Nil THEN [l |-> NoURL, err |-> s.err]
      ELSE IF p.err # Nil THEN [l |-> NoURL, err |-> p.err]
      ELSE IF h.err # Nil THEN [l |-> NoURL, err |-> h.err]
      ELSE [l |-> h.l, err |-> Nil]

(***************************************************************************)
(* dialer.go: createRequest and Dial                                       *)
(***************************************************************************)
\* A faulty createRequest that leaves the port in the Host header (C29
\* detects it)
createRequestKeepsPort(d, l, key) ==
  [Method |-> "GET", ProtoMajor |-> 1, ProtoMinor |-> 1,
   Host |-> l.Host,
   Header |-> ("Host" :> l.Host)
              @@ ("Upgrade" :> SWebsocket)
              @@ ("Connection" :> SUpgrade)
              @@ ("Sec-Websocket-Version" :> wsVersion)
              @@ ("Sec-Websocket-Key" :> key)
              @@ ("Sec-Websocket-Protocol"
                    :> Join(d.SubProtocols, <<",", " ">>))
              @@ d.Header]

\* A faulty createRequest that leaves the fields the user has set as they
\* are (C36 detects it)
createRequestKeepsUser(d, l, key) ==
  LET host == IF l.Scheme = SWs /\ HasSuffix(l.Host, SDefaultPort)
              THEN SubSeq(l.Host, 1, Len(l.Host) - Len(SDefaultPort))
              ELSE IF l.Scheme = SWss /\ HasSuffix(l.Host, SDefaultPortTLS)
              THEN SubSeq(l.Host, 1, Len(l.Host) - Len(SDefaultPortTLS))
              ELSE l.Host
  IN  [Method |-> "GET", ProtoMajor |-> 1, ProtoMinor |-> 1,
       Host |-> l.Host,
       Header |-> d.Header
                  @@ ("Host" :> host)
                  @@ ("Upgrade" :> SWebsocket)
                  @@ ("Connection" :> SUpgrade)
                  @@ ("Sec-Websocket-Version" :> wsVersion)
                  @@ ("Sec-Websocket-Key" :> key)
                  @@ ("Sec-Websocket-Protocol"
                        :> Join(d.SubProtocols, <<",", " ">>))]

\* Dialer.createRequest, for the URL l parseURL returned and the key
\* makeChallengeKey returned
createRequest(d, l, key) ==
  LET host == IF l.Scheme = SWs /\ HasSuffix(l.Host, SDefaultPort)
              THEN SubSeq(l.Host, 1, Len(l.Host) - Len(SDefaultPort))
              ELSE IF l.Scheme = SWss /\ HasSuffix(l.Host, SDefaultPortTLS)
              THEN SubSeq(l.Host, 1, Len(l.Host) - Len(SDefaultPortTLS))
              ELSE l.Host
  IN  [Method |-> "GET", ProtoMajor |-> 1, ProtoMinor |-> 1,
       Host |-> l.Host,
       Header |-> ("Host" :> host)
                  @@ ("Upgrade" :> SWebsocket)
                  @@ ("Connection" :> SUpgrade)
                  @@ ("Sec-Websocket-Version" :> wsVersion)
                  @@ ("Sec-Websocket-Key" :> key)
                  @@ ("Sec-Websocket-Protocol"
                        :> Join(d.SubProtocols, <<",", " ">>))
                  @@ d.Header]

validateResponseStatus(r) ==
  IF r.StatusCode # StatusSwitchingProtocols
  THEN OpenError("http status not 101")
  ELSE Nil

validateResponseUpgradeHeader(r) ==
  IF ToLower(Get(r.Header, "Upgrade")) # SWebsocket
  THEN OpenError("Upgrade Header should have the value of websocket")
  ELSE Nil

validateResponseConnectionHeader(r) ==
  IF ToLower(Get(r.Header, "Connection")) # SUpgrade
  THEN OpenError("Connection Header should have the value of upgrade")
  ELSE Nil

\* A faulty validation that takes the accept key of any challenge key (C20
\* detects it)
validateResponseSecWebsocketAcceptHeaderAnyKey(r) ==
  IF \A k \in {SampleKey, OtherKey} :
       Get(r.Header, "Sec-Websocket-Accept") # makeAcceptKey(k)
  THEN OpenError("challenge key failure")
  ELSE Nil

\* r.Request is the request Dial sent
validateResponseSecWebsocketAcceptHeader(r) ==
  IF Get(r.Header, "Sec-Websocket-Accept")
       # makeAcceptKey(Get(r.Request.Header, "Sec-Websocket-Key"))
  THEN OpenError("challenge key failure")
  ELSE Nil

\* Not called by validateResponse
validateResponseSecWebsocketProtocol(r) ==
  LET c == headerToSlice(Get(r.Request.Header, "Sec-Websocket-Protocol"))
      s == Get(r.Header, "Sec-Websocket-Protocol")
  IN  IF Len(s) = 0 THEN Nil
      ELSE IF \E i \in 1..Len(c) : c[i] = s THEN Nil
      ELSE OpenError("server choose a sub protocol which was not in the list sent by the client")

validateResponse(r) ==
  FirstError(<<validateResponseStatus(r),
               validateResponseUpgradeHeader(r),
               validateResponseConnectionHeader(r),
               validateResponseSecWebsocketAcceptHeader(r)>>)

\* Dialer.Dial once parseURL has returned l.  net tells whether the
\* connection is made, the request written and a response read; got is
\* the response read.
Dial(d, l, key, net, got) ==
  LET r == [StatusCode |-> got.StatusCode, Header |-> got.Header,
            Request |-> createRequest(d, l, key)]
      v == validateResponse(r)
  IN  IF net # "ok" THEN [s |-> Nil, r |-> NoResponse, err |-> ErrOther]
      ELSE IF v # Nil THEN [s |-> Nil, r |-> NoResponse, err |-> v]
      ELSE [s |-> NewSocket(FALSE), r |-> got, err |-> Nil]

(***************************************************************************)
(* The opening handshake as a specification: one call of Upgrade or of     *)
(* Dial, on every request, response writer and response of the sets below  *)
(***************************************************************************)
\* The longest list of sub protocols a client advertises
MaxProtocols == 2

SChat == <<"c", "h", "a", "t">>

SMqtt == <<"m", "q", "t", "t">>

SHostA == <<"a">>

SHostB == <<"b">>

ProtocolNames == {SChat, SMqtt}

\* The lists of different sub protocols a client may advertise
Advertised ==
  UNION {{l \in [1..n -> ProtocolNames] :
            \A i, j \in 1..n : l[i] = l[j] => i = j} : n \in 0..MaxProtocols}

\* How a client separates the values of a field
Separators == {<<",", " ">>, <<",">>}

\* Request.SubProtocol, "" when the server chooses none
SubProtocolChoices == {<<>>, SMqtt}

\* Request.CheckOrigin
CheckOrigins == {"nil", "allow", "deny"}

Hosts == {SHostA, SHostB}

Origins ==
  {<<>>, SHttp, SHttp \o SHostA, SHttps \o SHostB, SHostB}

Versions == {wsVersion, <<"8">>}

\* HTTP/1.0 and HTTP/1.1
Protos == {<<1, 0>>, <<1, 1>>}

Methods == {"GET", "POST"}

UpgradeValues ==
  {SWebsocket,
   <<"W", "e", "b", "S", "o", "c", "k", "e", "t">>,
   <<"h", "2", "c">>}

ConnectionValues ==
  {<<"U", "p", "g", "r", "a", "d", "e">>,
   <<"c", "l", "o", "s", "e">>}

\* A key of 16 bytes, a key of 3 bytes, and text that is not base64
KeyValues ==
  {SampleKey,
   <<"A", "A", "A", "A">>,
   <<"!", "!", "!", "!">>}

Writers == {"hijacker", "plain", "broken"}

ChallengeKeys == {SampleKey, OtherKey}

\* The URL parseURL returns for ws://a
\* The URL strings parseURL is called with: a scheme or none, a host, a
\* port or none, a path or none
URLSchemes ==
  {<<>>, SWs, SWss, <<"h", "t", "t", "p">>, <<"W", "S">>, <<"h", "2", "c">>}

URLHosts == {SHostA, SHostB, <<"[", ":", ":", "1", "]">>}

URLPorts == {<<>>, <<"2", "2">>, <<"4", "4", "3">>, <<"8", "0">>}

URLPaths == {<<>>, <<"/", "x">>}

\* The string of a URL made of these parts
URLString(s, h, pt, pa) ==
  (IF s = <<>> THEN <<>> ELSE s \o SSchemeSeparator)
    \o h \o (IF pt = <<>> THEN <<>> ELSE <<":">> \o pt) \o pa

\* The URL Dial has parsed in the handshakes below
URLs == {parseURL(SHostA).l}

\* The responses a server that is not of the library may give to a request
\* made with key k
Responses(k) ==
  {Response(c, ("Upgrade" :> u) @@ ("Connection" :> n)
                 @@ ("Sec-Websocket-Accept" :> a) @@ p) :
     c \in {StatusSwitchingProtocols, StatusForbidden},
     u \in UpgradeValues,
     n \in ConnectionValues \cup {SUpgrade},
     a \in {makeAcceptKey(k),
            makeAcceptKey(CHOOSE o \in ChallengeKeys : o # k), k},
     p \in {NoHeader} \cup
           {"Sec-Websocket-Protocol" :> x : x \in ProtocolNames}}

\* The request as net/http hands it to the server's handler
Served(r) ==
  [Method |-> r.Method, ProtoMajor |-> r.ProtoMajor,
   ProtoMinor |-> r.ProtoMinor, Host |-> r.Host, Header |-> r.Header]

\* The sockets of the model play no part in a handshake
InitHandshake ==
  /\ InitSocket
  /\ lib = [e \in E |-> FALSE]
  /\ budget = [e \in E |-> 0]
  /\ inj = 0
  /\ faults = 0
  /\ CloseDelay = ClientDelay
  /\ PingHandler = NoPingHandler

sockVars ==
  <<lib, state, closeError, writeMutex, wbuf, werr, connClosed, wire, rpos,
    closeCalls, readCalls, pingCalls, pongCalls, th, budget, used, sent,
    userCalls, inj, faults, CloseDelay, PingHandler>>

\* A server calls Upgrade on a request.  adv is the list the client
\* advertised, written in the request with the separator sep.
HsUpgrade ==
  /\ hs.phase = "none"
  /\ \E co \in CheckOrigins, sp \in SubProtocolChoices, o \in Origins,
        h \in Hosts, v \in Versions, pr \in Protos, m \in Methods,
        up \in UpgradeValues, cn \in ConnectionValues, k \in KeyValues,
        adv \in Advertised, sep \in Separators, w \in Writers :
       LET q == [CheckOrigin |-> co, SubProtocol |-> sp]
           r == [Method |-> m, ProtoMajor |-> pr[1], ProtoMinor |-> pr[2],
                 Host |-> h,
                 Header |-> ("Origin" :> o)
                            @@ ("Upgrade" :> up)
                            @@ ("Connection" :> cn)
                            @@ ("Sec-Websocket-Version" :> v)
                            @@ ("Sec-Websocket-Key" :> k)
                            @@ ("Sec-Websocket-Protocol" :> Join(adv, sep))]
       IN  hs' = [phase |-> "Upgrade", q |-> q, r |-> r, w |-> w,
                  adv |-> adv, out |-> Upgrade(q, r, w)]
  /\ UNCHANGED <<sockVars, call>>

\* A client calls Dial and a server that is not of the library answers
HsDial ==
  /\ hs.phase = "none"
  /\ \E adv \in Advertised, l \in URLs, k \in ChallengeKeys :
       \E got \in Responses(k) :
         LET d == [Header |-> NoHeader, SubProtocols |-> adv]
         IN  hs' = [phase |-> "Dial", d |-> d, r |-> createRequest(d, l, k),
                    peer |-> "any", got |-> got,
                    out |-> Dial(d, l, k, "ok", got)]
  /\ UNCHANGED <<sockVars, call>>

\* A client calls Dial and the connection, the write of the request or the
\* read of the response fails
HsDialFails ==
  /\ hs.phase = "none"
  /\ \E adv \in Advertised, l \in URLs, k \in ChallengeKeys :
       LET d == [Header |-> NoHeader, SubProtocols |-> adv]
       IN  hs' = [phase |-> "Dial", d |-> d, r |-> createRequest(d, l, k),
                  peer |-> "none", got |-> NoResponse,
                  out |-> Dial(d, l, k, "fail", NoResponse)]
  /\ UNCHANGED <<sockVars, call>>

\* Dialer.Header as the user sets it: nothing; values of the user for the
\* fields createRequest sets, and a field of the user's own; an Origin that
\* is not the host dialled
UserHeaders ==
  {NoHeader,
   ("Upgrade" :> <<"h", "2", "c">>)
     @@ ("Connection" :> <<"c", "l", "o", "s", "e">>)
     @@ ("Sec-Websocket-Version" :> <<"8">>)
     @@ ("Sec-Websocket-Key" :> <<"!", "!", "!", "!">>)
     @@ ("Host" :> SHostB)
     @@ ("X-Token" :> <<"t">>),
   "Origin" :> (SHttp \o SHostB)}

\* The URLs parseURL returns without an error for a host with or without
\* a scheme, a port and a path
DialURLs ==
  {parseURL(URLString(s, SHostA, pt, pa)).l :
     s \in {<<>>, SWs, SWss}, pt \in {<<>>, <<"4", "4", "3">>},
     pa \in URLPaths}

\* A client calls Dial and a server of the library answers with Upgrade
HsDialUpgrade ==
  /\ hs.phase = "none"
  /\ \E adv \in Advertised, l \in DialURLs, k \in ChallengeKeys,
        co \in CheckOrigins, sp \in SubProtocolChoices \cup ProtocolNames,
        uh \in UserHeaders :
       LET d   == [Header |-> uh, SubProtocols |-> adv]
           r   == createRequest(d, l, k)
           q   == [CheckOrigin |-> co, SubProtocol |-> sp]
           srv == Upgrade(q, Served(r), "hijacker")
       IN  hs' = [phase |-> "Dial", d |-> d, r |-> r, peer |-> "Upgrade",
                  q |-> q, srv |-> srv, got |-> srv.resp,
                  out |-> Dial(d, l, k, "ok", srv.resp)]
  /\ UNCHANGED <<sockVars, call>>

\* The start of Dial: parseURL on the string given, and createRequest on
\* the URL it returned
HsParseURL ==
  /\ hs.phase = "none"
  /\ \E s \in URLSchemes, h \in URLHosts, pt \in URLPorts, pa \in URLPaths,
        k \in ChallengeKeys :
       LET u == URLString(s, h, pt, pa)
           d == [Header |-> NoHeader, SubProtocols |-> <<>>]
           o == parseURL(u)
       IN  hs' = [phase |-> "parseURL", u |-> u,
                  given |-> [scheme |-> s, host |-> h, port |-> pt,
                             path |-> pa],
                  out |-> o,
                  r |-> IF o.err = Nil THEN createRequest(d, o.l, k)
                        ELSE createRequest(d, NoURL, k)]
  /\ UNCHANGED <<sockVars, call>>

HandshakeNext ==
  HsParseURL \/ HsDialFails \/ HsDialUpgrade \/ HsDial \/ HsUpgrade

SpecHandshake == InitHandshake /\ [][HandshakeNext]_vars

(***************************************************************************)
(* The codec on its own: one call of a function of frame.go, errors.go,    *)
(* frame_utils.go or utils.go, kept in call with its result; newFrame is   *)
(* then called on what toBytes returned.                                   *)
(***************************************************************************)
MaxPayload == 2     \* length of the payloads enumerated byte by byte
StreamLen == 4      \* bytes the transport holds for readFromBuffer
MaxRead == 3        \* largest l of readFromBuffer

\* The bytes payloads, reasons and lengths are made of
SomeBytes == {0, 129, 255}

RECURSIVE SeqsUpTo(_, _)
SeqsUpTo(S, n) ==
  IF n = 0 THEN {<<>>}
  ELSE LET T == SeqsUpTo(S, n - 1)
       IN  T \cup {Append(s, x) : s \in {q \in T : Len(q) = n - 1}, x \in S}

\* A payload of n bytes
LongPayload(n) == [i \in 1..n |-> (i * 7) % 256]

\* Lengths on both sides of the 125/126 limit and of the 65535/65536 limit
LongLengths == {125, 126, 127}
LongestLengths == {65535, 65536}

CodecKeys == {<<>>, <<1, 2, 3, 4>>, <<255, 0, 170, 85>>}

\* The frames Write, WriteMessage and the handlers build: fin, opcode, key
\* and payload; masked and length are not set
CodecFrames ==
  {Frame(fin, o, FALSE, 0, k, p) :
     fin \in BOOLEAN,
     o \in {OpcodeContinuation, OpcodeText, OpcodeBinary, OpcodeClose,
            OpcodePing, OpcodePong, 3},
     k \in CodecKeys \cup {<<1, 2>>},
     p \in SeqsUpTo(SomeBytes, MaxPayload)}
  \cup
  {Frame(TRUE, OpcodeBinary, FALSE, 0, k, LongPayload(n)) :
     k \in {<<>>, <<255, 0, 170, 85>>}, n \in LongLengths}

\* What may follow a frame on the transport
Trailing == {<<>>, <<129, 0>>}

\* Every way of cutting s into chunks
RECURSIVE Splits(_)
Splits(s) ==
  IF s = <<>> THEN {<<>>}
  ELSE UNION {{<<SubSeq(s, 1, i)>> \o r : r \in Splits(SubSeq(s, i + 1, Len(s)))}
              : i \in 1..Len(s)}

Stream == [i \in 1..StreamLen |-> 10 + i]

\* The readers readFromBuffer is called with: the first bytes of the
\* stream are in the buffer, the others arrive in chunks
Readers ==
  UNION {{[buf |-> SubSeq(Stream, 1, j), chunks |-> c, end |-> x] :
            c \in UNION {Splits(SubSeq(Stream, j + 1, n)) : n \in j..StreamLen},
            x \in {[kind |-> "block"], EOF, OpError("read")}}
         : j \in 0..BufSize}

\* The bytes a reader will give, in order
RECURSIVE Flat(_)
Flat(c) == IF c = <<>> THEN <<>> ELSE Head(c) \o Flat(Tail(c))

Pending(rd) == rd.buf \o Flat(rd.chunks)

CodecCodes ==
  {CloseNormalClosure, CloseGoingAway, CloseProtocolError,
   CloseUnsupportedData, CloseNoStatusReceived, CloseAbnormalClosure,
   CloseInvalidFramePayloadData, ClosePolicyViolation, CloseMessageTooBig,
   CloseMandatoryExtension, CloseInternalServerErr, CloseTLSHandshake,
   0, 999, 1004, 1016, 66536}

InitCodec ==
  /\ InitSocket
  /\ lib = [e \in E |-> FALSE]
  /\ budget = [e \in E |-> 0]
  /\ inj = 0
  /\ faults = 0
  /\ CloseDelay = ClientDelay
  /\ PingHandler = NoPingHandler

\* frame.toBytes
CodecToBytes ==
  /\ call = NoCall
  /\ \E f \in CodecFrames :
       call' = [fn |-> "toBytes", f |-> f, ret |-> toBytes(f)]
  /\ UNCHANGED <<sockVars, hs>>

\* newFrame on the bytes toBytes returned, followed by what comes next on
\* the transport
CodecNewFrame ==
  /\ call.fn = "toBytes"
  /\ call.ret.err = Nil
  /\ \E rest \in Trailing :
       call' = [fn |-> "newFrame", f |-> call.f, b |-> call.ret.b,
                rest |-> rest, ret |-> newFrame(call.ret.b \o rest)]
  /\ UNCHANGED <<sockVars, hs>>

\* toBytes and then newFrame for a payload of more than 65534 bytes.  Of
\* the bytes and of the payload, call keeps the sizes and whether the
\* payload came back as it was.
CodecLongFrame ==
  /\ call = NoCall
  /\ \E k \in {<<>>, <<255, 0, 170, 85>>}, n \in LongestLengths,
        rest \in Trailing :
       \E f \in {Frame(TRUE, OpcodeBinary, FALSE, 0, k, LongPayload(n))} :
         \E b \in {toBytes(f)} :
           \E r \in {newFrame(b.b \o rest)} :
             call' = [fn |-> "newFrameLong",
                      f |-> [f EXCEPT !.payload = <<>>], size |-> n,
                      err |-> b.err, head |-> SubSeq(b.b, 1, 10),
                      encoded |-> Len(b.b), rest |-> rest,
                      st |-> r.st, n |-> r.n,
                      ret |-> [r.f EXCEPT !.payload = <<>>],
                      same |-> r.f.payload = f.payload]
  /\ UNCHANGED <<sockVars, hs>>

\* newFrame on two bytes of any value: readInitial
CodecReadInitial ==
  /\ call = NoCall
  /\ \E b1 \in 0..255, b2 \in {0, 5, 133} :
       call' = [fn |-> "readInitial", p |-> <<b1, b2>>,
                ret |-> readInitial(<<b1, b2>>),
                frame |-> newFrame(<<b1, b2>>)]
  /\ UNCHANGED <<sockVars, hs>>

\* readLength for a 7-bit length and the bytes that follow it
CodecReadLength ==
  /\ call = NoCall
  /\ \E m \in 0..127, hi \in {0, 1, 127, 128, 255}, lo \in SomeBytes :
       LET s == <<hi, lo, 0, 0, 0, 1, 0, lo>>
       IN  call' = [fn |-> "readLength", m |-> m, s |-> s,
                    ret |-> readLength(m, s),
                    frame |-> newFrame(<<130, m>> \o s)]
  /\ UNCHANGED <<sockVars, hs>>

\* CloseError.ToBytes, then NewCloseError on the bytes
CodecCloseError ==
  /\ call = NoCall
  /\ \E code \in CodecCodes, r \in SeqsUpTo(SomeBytes, MaxPayload) :
       LET c == CloseError(code, r)
       IN  call' = [fn |-> "ToBytes", c |-> c, ret |-> ToBytes(c),
                    back |-> NewCloseError(ToBytes(c).b)]
  /\ UNCHANGED <<sockVars, hs>>

\* mask, and mask again with the same key
CodecMask ==
  /\ call = NoCall
  /\ \E p \in SeqsUpTo(SomeBytes, MaxPayload) \cup {LongPayload(5)},
        k \in CodecKeys \ {<<>>} :
       call' = [fn |-> "mask", p |-> p, k |-> k, ret |-> mask(p, k),
                back |-> mask(mask(p, k), k)]
  /\ UNCHANGED <<sockVars, hs>>

\* toBytesPayloadData on the payload the caller of Write holds
CodecPayloadData ==
  /\ call = NoCall
  /\ \E p \in SeqsUpTo(SomeBytes, MaxPayload) \cup {LongPayload(5)},
        k \in CodecKeys :
       LET mem == [a \in {"payload"} |-> p]
       IN  call' = [fn |-> "toBytesPayloadData", p |-> p, k |-> k,
                    ret |-> toBytesPayloadDataCopy(mem, k)]
  /\ UNCHANGED <<sockVars, hs>>

\* readFromBuffer
CodecReadFromBuffer ==
  /\ call = NoCall
  /\ \E rd \in Readers, l \in 0..MaxRead :
       call' = [fn |-> "readFromBuffer", rd |-> rd, l |-> l,
                ret |-> readFromBuffer(rd, l)]
  /\ UNCHANGED <<sockVars, hs>>

\* The payloads NewCloseError is called with: none, a single byte, and a
\* code with or without a byte of reason.  <<3, 232>> is 1000, <<3, 236>>
\* is 1004, which is not a code of the library
CloseBytes == {3, 232, 236, 120}

CloseInputs == SeqsUpTo(CloseBytes, 3)

\* NewCloseError on the payload of a Close frame
CodecNewCloseError ==
  /\ call = NoCall
  /\ \E b \in CloseInputs :
       call' = [fn |-> "NewCloseError", b |-> b, ret |-> NewCloseError(b)]
  /\ UNCHANGED <<sockVars, hs>>

\* Frames whose masked and length fields are set, to what the payload and
\* the key say or to something else
FieldFrames ==
  {Frame(TRUE, o, m, l, k, p) :
     o \in {OpcodeText, OpcodeClose},
     m \in BOOLEAN,
     l \in {0, 1, 126, 65536},
     k \in {<<>>, <<255, 0, 170, 85>>},
     p \in SeqsUpTo(SomeBytes, 1) \cup {LongPayload(n) : n \in LongLengths}}

\* frame.toBytes on a frame whose masked and length fields are set, and on
\* the same frame with these fields cleared
CodecToBytesFields ==
  /\ call = NoCall
  /\ \E f \in FieldFrames :
       call' = [fn |-> "toBytesFields", f |-> f, ret |-> toBytes(f),
                plain |-> toBytes([f EXCEPT !.masked = FALSE, !.length = 0])]
  /\ UNCHANGED <<sockVars, hs>>

\* A time.Duration is an int64 of nanoseconds, kept as its eight bytes, the
\* most significant first.  time.Second is 1000000000 (0x3B9ACA00).
Second == <<0, 0, 0, 0, 59, 154, 202, 0>>

Millisecond == <<0, 0, 0, 0, 0, 15, 66, 64>>

Nanosecond == Uint64(1)

\* 10 * time.Second (0x2540BE400)
TenSeconds == <<0, 0, 0, 2, 84, 11, 228, 0>>

\* The byte of weight 256^i of w
Digit(w, i) == w[8 - i]

RECURSIVE Column(_, _, _, _)
\* The sum of the products of the bytes of a and b whose weights multiply
\* to 256^k, from the byte i of a on
Column(a, b, k, i) ==
  IF i > k THEN 0
  ELSE Digit(a, i) * Digit(b, k - i) + Column(a, b, k, i + 1)

RECURSIVE MulFrom(_, _, _, _)
\* The bytes of a * b of weight 256^k and above, in 64 bits, given the
\* carry of the bytes below
MulFrom(a, b, k, carry) ==
  IF k = 8 THEN <<>>
  ELSE LET s == carry + Column(a, b, k, 0)
       IN  Append(MulFrom(a, b, k + 1, s \div 256), s % 256)

\* a * b of two time.Duration values: the product of two int64 wraps
\* around in 64 bits
Mul64(a, b) == MulFrom(a, b, 0, 0)

\* d > 0 for an int64
Positive(d) == d[1] < 128 /\ d # Uint64(0)

\* What tcpClose does on a socket that is not Closed before it calls
\* TCPClose, for s.CloseDelay = d: nothing when d is not positive;
\* otherwise time.NewTicker(time.Second * s.CloseDelay) and <-t.C, which
\* panics when the product is not positive and else delivers the first
\* tick after the product
tcpCloseWait(d) ==
  IF ~Positive(d) THEN [wait |-> "none", panic |-> FALSE, d |-> Uint64(0)]
  ELSE LET w == Mul64(Second, d)
       IN  IF Positive(w) THEN [wait |-> "tick", panic |-> FALSE, d |-> w]
           ELSE [wait |-> "none", panic |-> TRUE, d |-> w]

\* The values of Socket.CloseDelay
CloseDelays == {Uint64(0), Nanosecond, Millisecond, Second, TenSeconds}

\* The wait of tcpClose for a CloseDelay
CodecTcpClose ==
  /\ call = NoCall
  /\ \E d \in CloseDelays :
       call' = [fn |-> "tcpClose", CloseDelay |-> d, ret |-> tcpCloseWait(d)]
  /\ UNCHANGED <<sockVars, hs>>

CodecNext ==
  \/ CodecToBytes
  \/ CodecTcpClose
  \/ CodecToBytesFields
  \/ CodecNewFrame
  \/ CodecReadInitial
  \/ CodecReadLength
  \/ CodecCloseError
  \/ CodecMask
  \/ CodecPayloadData
  \/ CodecReadFromBuffer
  \/ CodecNewCloseError
  \/ CodecLongFrame

SpecCodec == InitCodec /\ [][CodecNext]_vars

(***************************************************************************)
(* What a socket has put on the transport, decoded                         *)
(***************************************************************************)
RECURSIVE WireFrames(_)
\* The whole frames at the head of the byte string s, in order
WireFrames(s) ==
  LET d == newFrame(s)
  IN  IF d.st = "ok" THEN <<d.f>> \o WireFrames(SubSeq(s, d.n + 1, Len(s)))
      ELSE <<>>

RECURSIVE WireRest(_)
\* The bytes of s that follow its whole frames
WireRest(s) ==
  LET d == newFrame(s)
  IN  IF d.st = "ok" THEN WireRest(SubSeq(s, d.n + 1, Len(s))) ELSE s

IsClose(f) == f.opcode = OpcodeClose

\* The Close frames e has put on the transport
CloseFrames(e) == SelectSeq(WireFrames(wire[e]), IsClose)

\* Goroutine t of e takes a step
Steps(e, t) == th'[e][t].pc # th[e][t].pc

\* Goroutine t of e is inside Write, holding the mutex
InWrite(e, t) ==
  \/ th[e][t].pc \in {"W_flush", "W_ferr", "W_st", "W_unlock"}
  \/ th[e][t].pc \in {"T_chk", "T_set", "T_call"}
       /\ th[e][t].tret = "W_unlock"

(***************************************************************************)
(* C1                                                                      *)
(***************************************************************************)
\* C1: under every interleaving of the read loop with Write, Close,
\* CloseWithError and TCPClose of other goroutines, the CloseHandler of a
\* socket is invoked at most once and its transport is closed at most once.
C1_TornDownOnce ==
  \A e \in E : lib[e] => Len(closeCalls[e]) <= 1 /\ connClosed[e] <= 1

(***************************************************************************)
(* C2                                                                      *)
(***************************************************************************)
\* C2: in every execution the state of a socket only moves Opened->Closing,
\* Opened->Closed or Closing->Closed; once Closed it is never Closing or
\* Opened again.
C2_StateMonotonic ==
  [][\A e \in E : lib[e] => state'[e] >= state[e]]_vars

(***************************************************************************)
(* C3                                                                      *)
(***************************************************************************)
\* The step Write takes at its state check when the state is Closed: it
\* goes to its return with ErrSocketClosed and nothing of the socket changes
C3_Rejects(e, t) ==
  (Steps(e, t) /\ th[e][t].pc = "W_lock" /\ state[e] = stateClosed)
    => /\ th'[e][t].pc = "W_unlock"
       /\ th'[e][t].rv = ErrSocketClosed

\* Write, once it has seen the state Closed, takes no step but its return,
\* which frees the mutex; none of its steps changes the transport, the
\* state, closeError or the CloseHandler invocations
C3_Returns(e, t) ==
  (Steps(e, t) /\ th[e][t].pc = "W_unlock"
     /\ th[e][t].rv = ErrSocketClosed)
    => /\ th'[e][t].pc = th[e][t].wret
       /\ writeMutex[e] = t
       /\ writeMutex'[e] = "free"

C3_NoEffect(e, t) ==
  (Steps(e, t)
     /\ \/ th[e][t].pc = "W_lock" /\ state[e] = stateClosed
        \/ th[e][t].pc = "W_unlock" /\ th[e][t].rv = ErrSocketClosed)
    => /\ wire'[e] = wire[e]
       /\ wbuf'[e] = wbuf[e]
       /\ state'[e] = state[e]
       /\ closeError'[e] = closeError[e]
       /\ closeCalls'[e] = closeCalls[e]
       /\ connClosed'[e] = connClosed[e]

\* C3: Write called while the state is Closed returns ErrSocketClosed,
\* writes no bytes to the transport, leaves state and closeError unchanged,
\* does not invoke the CloseHandler, and releases the write mutex.
C3_WriteWhenClosed ==
  [][\A e \in E : \A t \in Threads :
       C3_Rejects(e, t) /\ C3_Returns(e, t) /\ C3_NoEffect(e, t)]_vars

\* A Write of a user goroutine on a Closed socket is about to return
\* ErrSocketClosed
C3_Witness ==
  \E e \in E : \E u \in Users :
    /\ At(e, u, "W_unlock")
    /\ th[e][u].rv = ErrSocketClosed
    /\ th[e][u].op = "Write"
    /\ state[e] = stateClosed
    /\ writeMutex[e] = u

(***************************************************************************)
(* C4                                                                      *)
(***************************************************************************)
\* The frames a socket can send: final, of an opcode Write is called with,
\* masked by a client and not by a server
C4_Sent(e, f) ==
  /\ f.fin
  /\ f.opcode \in {OpcodeText, OpcodePong, OpcodeClose}
  /\ f.masked = ~server(e)

\* At most one goroutine is between the build of a frame and the end of
\* its flush, and it holds the mutex
C4_OneWriter(e) ==
  /\ Cardinality({t \in Threads : InWrite(e, t)}) <= 1
  /\ \A t \in Threads : InWrite(e, t) => writeMutex[e] = t

\* The transport holds whole frames, followed by nothing or by the head of
\* the frame whose flush is running or has failed
C4_WholeFrames(e) ==
  /\ \A i \in 1..Len(WireFrames(wire[e])) :
       C4_Sent(e, WireFrames(wire[e])[i])
  /\ WireRest(wire[e]) # <<>> =>
       /\ Len(WireRest(wire[e])) = ChunkBytes
       /\ \/ werr[e] # Nil
          \/ \E t \in Threads :
               /\ th[e][t].pc = "W_flush"
               /\ th[e][t].b = WireRest(wire[e]) \o wbuf[e]

\* C4: when several goroutines call Write concurrently on one socket, the
\* bytes that reach the transport are a concatenation of whole encoded
\* frames, never interleaved, and at most one goroutine is between building
\* a frame and finishing its flush.
C4_FramesAtomic ==
  \A e \in E : lib[e] => C4_OneWriter(e) /\ C4_WholeFrames(e)

\* A user goroutine waits for the mutex while the flush of the read loop
\* has put the head of its frame on the transport, after a whole frame
C4_Witness ==
  \E e \in E : \E u \in Users :
    /\ At(e, u, "W_lock")
    /\ At(e, "rd", "W_flush")
    /\ WireRest(wire[e]) # <<>>
    /\ Len(WireFrames(wire[e])) >= 1

(***************************************************************************)
(* C5                                                                      *)
(***************************************************************************)
\* The status code in the first two bytes of a Close payload, 0 when the
\* payload is shorter
C5_Code(p) == IF Len(p) >= 2 THEN p[1] * 256 + p[2] ELSE 0

C5_Recognized(p) ==
  C5_Code(p) \in {CloseNormalClosure, CloseGoingAway, CloseProtocolError,
                  CloseUnsupportedData, CloseNoStatusReceived,
                  CloseAbnormalClosure, CloseInvalidFramePayloadData,
                  ClosePolicyViolation, CloseMessageTooBig,
                  CloseMandatoryExtension, CloseInternalServerErr,
                  CloseTLSHandshake}

\* The read loop of e acts on a Close frame it decoded while the state was
\* Opened, and no other goroutine of the socket runs meanwhile
C5_PeerInitiated(e) ==
  /\ lib[e]
  /\ th[e]["rd"].f.opcode = OpcodeClose
  /\ th[e]["rd"].wret = "D_chk"
  /\ th[e]["rd"].obs = stateOpened
  /\ th[e]["rd"].alone

\* The state is Closing while the acknowledgement is written
C5_Closing(e) ==
  (C5_PeerInitiated(e) /\ th[e]["rd"].pc \in {"W_lock", "W_flush", "W_st"})
    => state[e] = stateClosing

\* Listen has returned and the acknowledgement was flushed: one Close frame
\* was written, with the two bytes of a recognized code or nothing, the
\* socket is Closed and the CloseHandler was invoked once, with the code and
\* the reason received when the code is recognized
C5_Acknowledged(e) ==
  LET p == th[e]["rd"].f.payload IN
  (C5_PeerInitiated(e) /\ th[e]["rd"].pc = "done"
     /\ th[e]["rd"].ferr = Nil)
    => /\ state[e] = stateClosed
       /\ connClosed[e] = 1
       /\ Len(CloseFrames(e)) = 1
       /\ WireRest(wire[e]) = <<>>
       /\ CloseFrames(e)[1].payload =
            IF C5_Recognized(p) THEN SubSeq(p, 1, 2) ELSE <<>>
       /\ Len(closeCalls[e]) = 1
       /\ C5_Recognized(p) =>
            closeCalls[e][1] = CloseError(C5_Code(p), SubSeq(p, 3, Len(p)))

\* C5: when the read loop, in state Opened, receives a Close frame with a
\* recognized status code c, it moves to Closing, writes exactly one Close
\* frame whose payload is the 2-byte big-endian c, tears the transport down
\* (state Closed) and invokes the CloseHandler with CloseError{c, received
\* reason}; when the code is unrecognized or the payload shorter than two
\* bytes, the acknowledgement has an empty payload.
C5_PeerClose ==
  \A e \in E : C5_Closing(e) /\ C5_Acknowledged(e)

\* Listen has returned after acknowledging Close{1000, "ok"}
C5_Witness ==
  \E e \in E :
    /\ C5_PeerInitiated(e)
    /\ th[e]["rd"].pc = "done"
    /\ th[e]["rd"].ferr = Nil
    /\ th[e]["rd"].f.payload = <<3, 232, 111, 107>>
    /\ closeCalls[e] = <<CloseError(CloseNormalClosure, <<111, 107>>)>>

(***************************************************************************)
(* C6                                                                      *)
(***************************************************************************)
\* The read loop of e has decoded a Close frame and finds the state Closing
C6_AckReceived(e) == At(e, "rd", "R_cl") /\ state[e] = stateClosing

\* The read loop of e is past a Close frame it took for the acknowledgement
C6_AfterAck(e) ==
  /\ lib[e]
  /\ th[e]["rd"].f.opcode = OpcodeClose
  /\ th[e]["rd"].wret = "none"
  /\ th[e]["rd"].pc \in {"D_chk", "D_wait", "T_chk", "T_set", "T_call"}

\* From the acknowledgement on, the read loop goes through tcpClose to its
\* exit and puts nothing into the write buffer or on the transport
C6_NoFurtherFrame(e) ==
  /\ (Steps(e, "rd") /\ C6_AckReceived(e))
       => /\ th'[e]["rd"].pc = "D_chk"
          /\ wire'[e] = wire[e]
          /\ wbuf'[e] = wbuf[e]
  /\ (Steps(e, "rd") /\ C6_AfterAck(e))
       => /\ th'[e]["rd"].pc \in {"D_wait", "T_chk", "T_set", "T_call", "done"}
          /\ wire'[e] = wire[e]
          /\ wbuf'[e] = wbuf[e]

C7_ClientClosed ==
  /\ lib["c"] /\ lib["s"]
  /\ th["c"]["rd"].pc = "done"
  /\ th["c"]["rd"].f.opcode = OpcodeClose
  /\ th["c"]["rd"].f.payload = <<3, 232>>
  /\ th["c"]["rd"].wret = "none"
  /\ th["c"]["rd"].alone

\* C7 as stated: in a client-initiated normal close between two library
\* endpoints the CloseHandler of the client is invoked with
\* CloseError{1000, "normal closure"}.
C7_HandlerGetsMemo ==
  C7_ClientClosed =>
    /\ closeCalls["c"] # <<>>
    /\ closeCalls["c"][Len(closeCalls["c"])] =
         CloseError(CloseNormalClosure, StrNormalClosure)

\* C7 amended: in a client-initiated normal close between two library
\* endpoints the CloseHandler of the client is invoked with the CloseError
\* decoded from the acknowledgement, CloseError{1000, ""}: the server
\* echoes the code without the reason.
C7_HandlerGetsEcho ==
  C7_ClientClosed =>
    /\ closeCalls["c"] # <<>>
    /\ closeCalls["c"][Len(closeCalls["c"])] =
         CloseError(CloseNormalClosure, <<>>)

\* The handshake is over on both ends: the server's CloseHandler got the
\* reason the client sent, the client's got none
C7_Witness ==
  /\ C7_ClientClosed
  /\ th["s"]["rd"].pc = "done"
  /\ closeCalls["s"] = <<CloseError(CloseNormalClosure, StrNormalClosure)>>
  /\ closeCalls["c"] = <<CloseError(CloseNormalClosure, <<>>)>>
  /\ state["c"] = stateClosed

(***************************************************************************)
(* C8                                                                      *)
(***************************************************************************)
\* Close() or CloseWithError(e) of goroutine u is about to return; it found
\* the state Opened, its flush succeeded, and no other goroutine of the
\* socket ran meanwhile
C8_CloseReturns(e, u) ==
  /\ At(e, u, "W_unlock")
  /\ th[e][u].op \in {"Close", "CloseWithError"}
  /\ th[e][u].wobs = stateOpened
  /\ th[e][u].rv = Nil
  /\ th[e][u].ferr = Nil
  /\ th[e][u].alone

\* C8: Close() and CloseWithError(e) on an Opened socket whose flush
\* succeeds memo e as closeError and write exactly one Close frame carrying
\* e, but neither close the transport nor invoke the CloseHandler: on
\* return the state is Closing.
C8_CloseInitiates ==
  \A e \in E : \A u \in Users :
    C8_CloseReturns(e, u) =>
      /\ state[e] = stateClosing
      /\ closeError[e] = th[e][u].ce
      /\ connClosed[e] = 0
      /\ closeCalls[e] = <<>>
      /\ WireRest(wire[e]) = <<>>
      /\ Len(CloseFrames(e)) = 1
      /\ CloseFrames(e)[1].payload =
           BigEndian(th[e][u].ce.Code, 2) \o th[e][u].ce.Reason

\* CloseWithError({1001, "x"}) is about to return on a client
C8_Witness ==
  \E e \in E : \E u \in Users :
    /\ C8_CloseReturns(e, u)
    /\ th[e][u].ce = CloseError(CloseGoingAway, <<120>>)
    /\ ~server(e)
    /\ state[e] = stateClosing

(***************************************************************************)
(* C9                                                                      *)
(***************************************************************************)
\* newFrame of the read loop of e failed with io.EOF or a *net.OpError
\* while the state was not Closed
C9_ReadFailed(e) ==
  /\ lib[e]
  /\ th[e]["rd"].pc \in {"R_disp", "T_chk", "T_set", "T_call"}
  /\ th[e]["rd"].err.kind \in {"EOF", "OpError"}

\* The read loop then goes through TCPClose to its exit, writes nothing,
\* and when no other goroutine of the socket runs meanwhile, Listen returns
\* with the socket Closed and the CloseHandler invoked with 1006
C9_Teardown(e) ==
  (Steps(e, "rd") /\ C9_ReadFailed(e))
    => /\ th'[e]["rd"].pc \in {"T_chk", "T_set", "T_call", "done"}
       /\ wire'[e] = wire[e]
       /\ wbuf'[e] = wbuf[e]
       /\ th[e]["rd"].pc = "R_disp" => closeError'[e] = AbnormalClosure
       /\ (th'[e]["rd"].pc = "done" /\ th[e]["rd"].alone)
            => /\ state'[e] = stateClosed
               /\ closeError'[e] =
                    CloseError(CloseAbnormalClosure, StrAbnormalClosure)
               /\ closeCalls'[e] =
                    Append(closeCalls[e],
                           CloseError(CloseAbnormalClosure,
                                      StrAbnormalClosure))

\* C9: when decoding in the read loop fails with EOF or a network operation
\* error and the state is not Closed, the socket writes no Close frame,
\* sets closeError to CloseError{1006, "abnormal closure"}, becomes Closed,
\* invokes the CloseHandler with that error, and Listen returns, from
\* Opened and from Closing.
C9_AbnormalClosure ==
  [][\A e \in E : C9_Teardown(e)]_vars

\* Listen has returned after io.EOF met in the state Closing: the user's
\* Close frame is the only one written
C9_Witness ==
  \E e \in E :
    /\ lib[e]
    /\ th[e]["rd"].pc = "done"
    /\ th[e]["rd"].err = EOF
    /\ th[e]["rd"].obs = stateClosing
    /\ th[e]["rd"].alone
    /\ state[e] = stateClosed
    /\ closeCalls[e] =
         <<CloseError(CloseAbnormalClosure, StrAbnormalClosure)>>
    /\ Len(CloseFrames(e)) = 1

(***************************************************************************)
(* C10                                                                     *)
(***************************************************************************)
\* Write of goroutine t returns after its flush failed
C10_FlushFailed(e, t) ==
  Steps(e, t) /\ th[e][t].pc = "W_unlock" /\ th[e][t].ferr # Nil

\* It returns nil and does not touch the state on its way out; when no
\* other goroutine of the socket ran meanwhile, the flush error is
\* closeError, the state is Closed and the CloseHandler got the flush error
C10_Return(e, t) ==
  C10_FlushFailed(e, t)
    => /\ th[e][t].rv = Nil
       /\ state'[e] = state[e]
       /\ closeCalls'[e] = closeCalls[e]
       /\ th[e][t].alone
            => /\ closeError[e] = th[e][t].ferr
               /\ state[e] = stateClosed
               /\ closeCalls[e] # <<>>
               /\ closeCalls[e][Len(closeCalls[e])] = th[e][t].ferr

\* C10: when the flush inside Write fails, Write returns no error, the
\* flush error is stored as closeError, the state becomes Closed and the
\* CloseHandler is invoked with the flush error; the state is not set to
\* Closing afterwards even when the opcode was Close.
C10_FlushFailure ==
  [][\A e \in E : \A t \in Threads : C10_Return(e, t)]_vars

\* Close() of a user goroutine is about to return after its flush failed
C10_Witness ==
  \E e \in E : \E u \in Users :
    /\ At(e, u, "W_unlock")
    /\ th[e][u].o = OpcodeClose
    /\ th[e][u].ferr = OpError("write")
    /\ th[e][u].alone
    /\ state[e] = stateClosed
    /\ closeCalls[e] = <<OpError("write")>>

(***************************************************************************)
(* C11                                                                     *)
(***************************************************************************)
\* The last whole frame e has put on the transport
LastFrame(e) == WireFrames(wire[e])[Len(WireFrames(wire[e]))]

\* Listen of e has returned after the read loop answered a CloseError of
\* the decoder or a frame masked against the role with CloseWithError
C11_Violated(e) ==
  /\ lib[e]
  /\ th[e]["rd"].pc = "done"
  /\ th[e]["rd"].wret = "done"
  /\ \/ th[e]["rd"].err.kind = "CloseError"
     \/ th[e]["rd"].err = Nil /\ th[e]["rd"].f.masked # server(e)

\* No call of a user goroutine is in progress on e
C11_Quiet(e) == \A u \in Users : th[e][u].pc = "idle"

\* C11: after the read loop detects a protocol violation it sends a Close
\* frame carrying that error and the transport is then torn down: the
\* socket reaches Closed and its CloseHandler fires without the user
\* calling Listen or TCPClose again.  Here: once Listen has returned and no
\* user call is in progress, the socket is Closed and the handler has fired.
C11_ViolationTearsDown ==
  \A e \in E :
    (C11_Violated(e) /\ C11_Quiet(e))
      => /\ state[e] = stateClosed
         /\ closeCalls[e] # <<>>
         /\ (th[e]["rd"].alone /\ th[e]["rd"].ferr = Nil)
              => /\ WireFrames(wire[e]) # <<>>
                 /\ LastFrame(e).opcode = OpcodeClose
                 /\ LastFrame(e).payload = ToBytes(closeError[e]).b

(***************************************************************************)
(* C12                                                                     *)
(***************************************************************************)
\* The read loop of e holds a decoded frame masked against the role of e:
\* unmasked at a server, masked at a client
C12_Mismatch(e) ==
  /\ lib[e]
  /\ th[e]["rd"].err = Nil
  /\ th[e]["rd"].f.masked # server(e)

C12_Error(e) ==
  CloseError(CloseProtocolError,
             IF server(e) THEN StrExpectedMasked ELSE StrExpectedNotMasked)

\* The read loop does not call a handler with the frame and does not take
\* it for a Close frame: it calls CloseWithError and returns after it
C12_Refused(e) ==
  (Steps(e, "rd") /\ th[e]["rd"].pc = "R_disp" /\ C12_Mismatch(e))
    => /\ inCalls' = inCalls
       /\ closeError'[e] = C12_Error(e)
       /\ th'[e]["rd"].pc = "W_lock"
       /\ th'[e]["rd"].o = OpcodeClose
       /\ th'[e]["rd"].p = BigEndian(CloseProtocolError, 2) \o C12_Error(e).Reason
       /\ th'[e]["rd"].wret = "done"

\* From there the read loop runs Write to its end and Listen returns; when
\* no other goroutine of the socket ran and the flush succeeded, the Close
\* frame with 1002 and the reason is the last frame on the transport
C12_Exits(e) ==
  (Steps(e, "rd") /\ C12_Mismatch(e) /\ th[e]["rd"].wret = "done"
     /\ th[e]["rd"].pc \notin {"R_disp", "done"})
    => /\ inCalls' = inCalls
       /\ th'[e]["rd"].pc \in {"W_flush", "W_ferr", "W_st", "W_unlock",
                               "T_chk", "T_set", "T_call", "done"}
       /\ (th'[e]["rd"].pc = "done" /\ th[e]["rd"].alone
             /\ th[e]["rd"].ferr = Nil)
            => /\ WireFrames(wire[e]) # <<>>
               /\ LastFrame(e).opcode = OpcodeClose
               /\ LastFrame(e).payload =
                    BigEndian(CloseProtocolError, 2) \o C12_Error(e).Reason

\* C12: a server socket that decodes an unmasked frame, and a client socket
\* that decodes a masked frame, never passes it to ReadHandler, PingHandler
\* or PongHandler and never treats it as a Close frame; it sends a Close
\* frame with code 1002 and reason "expected payload to be masked" (server)
\* or "expected payload to not be masked" (client), and the read loop exits.
C12_MaskingRole ==
  [][\A e \in E : C12_Refused(e) /\ C12_Exits(e)]_vars

\* Listen of a client has returned after a masked Close frame: the frame
\* was not taken for a Close frame, the protocol error was sent
C12_Witness ==
  \E e \in E :
    /\ C12_Mismatch(e)
    /\ ~server(e)
    /\ th[e]["rd"].pc = "done"
    /\ th[e]["rd"].f.opcode = OpcodeClose
    /\ th[e]["rd"].alone
    /\ th[e]["rd"].ferr = Nil
    /\ LastFrame(e).payload =
         BigEndian(CloseProtocolError, 2) \o StrExpectedNotMasked
    /\ closeError[e] = CloseError(CloseProtocolError, StrExpectedNotMasked)
    /\ inCalls = <<[x \in E |-> <<>>], [x \in E |-> <<>>], [x \in E |-> <<>>]>>

(***************************************************************************)
(* C13                                                                     *)
(***************************************************************************)
\* The read loop of e is about to dispatch a Ping frame
C13_Ping(e) ==
  /\ At(e, "rd", "R_disp")
  /\ th[e]["rd"].err = Nil
  /\ th[e]["rd"].f.masked = server(e)
  /\ th[e]["rd"].f.opcode = OpcodePing

\* The read loop of e is inside defaultPingHandler
C13_InPong(e) ==
  /\ lib[e]
  /\ th[e]["rd"].o = OpcodePong
  /\ th[e]["rd"].wret = "R_dec"
  /\ th[e]["rd"].pc \notin {"R_dec", "R_disp", "done"}

\* With a PingHandler, it is called with the payload and the read loop goes
\* back to newFrame without a step of Write
C13_Handler(e) ==
  (Steps(e, "rd") /\ C13_Ping(e) /\ PingHandler[e])
    => /\ pingCalls'[e] = Append(pingCalls[e], th[e]["rd"].f.payload)
       /\ th'[e]["rd"].pc = "R_dec"
       /\ wire'[e] = wire[e]
       /\ wbuf'[e] = wbuf[e]

\* Without one, the read loop calls Write(OpcodePong, payload) once and
\* decodes the next frame only after Write has returned; the flush of that
\* Write puts one whole Pong frame with the payload on the transport
C13_Default(e) ==
  /\ (Steps(e, "rd") /\ C13_Ping(e) /\ ~PingHandler[e])
       => /\ pingCalls'[e] = pingCalls[e]
          /\ th'[e]["rd"].pc = "W_lock"
          /\ th'[e]["rd"].o = OpcodePong
          /\ th'[e]["rd"].p = th[e]["rd"].f.payload
          /\ th'[e]["rd"].wret = "R_dec"
          /\ wire'[e] = wire[e]
  /\ (Steps(e, "rd") /\ C13_InPong(e))
       => /\ th'[e]["rd"].pc \in
               CASE th[e]["rd"].pc = "W_lock" -> {"W_flush", "W_unlock"}
                 [] th[e]["rd"].pc = "W_flush" -> {"W_unlock", "W_ferr"}
                 [] th[e]["rd"].pc = "W_ferr" -> {"T_chk"}
                 [] th[e]["rd"].pc = "T_chk" -> {"T_set", "W_unlock"}
                 [] th[e]["rd"].pc = "T_set" -> {"T_call"}
                 [] th[e]["rd"].pc = "T_call" -> {"W_unlock"}
                 [] th[e]["rd"].pc = "W_unlock" -> {"R_dec"}
                 [] OTHER -> {}
          /\ rpos'[e] = rpos[e]
          /\ ~PingHandler[e]
          /\ IF th[e]["rd"].pc = "W_flush" /\ th'[e]["rd"].pc = "W_unlock"
             THEN /\ Len(WireFrames(wire'[e]))
                       = Len(WireFrames(wire[e])) + 1
                  /\ WireRest(wire'[e]) = <<>>
                  /\ WireFrames(wire'[e])[Len(WireFrames(wire'[e]))].opcode
                       = OpcodePong
                  /\ WireFrames(wire'[e])[Len(WireFrames(wire'[e]))].payload
                       = th[e]["rd"].f.payload
             ELSE wire'[e] = wire[e]

\* C13: for every Ping frame the read loop dispatches: if no PingHandler is
\* set, exactly one Pong frame with the identical payload is written before
\* the next frame is decoded; if a PingHandler is set, it is called with
\* the payload and the library writes no Pong itself.
C13_PingPong ==
  [][\A e \in E : C13_Handler(e) /\ C13_Default(e)]_vars

\* A socket without PingHandler has answered Ping(9) with Pong(9) and has
\* decoded the next frame
C13_Witness ==
  \E e \in E :
    /\ At(e, "rd", "R_disp")
    /\ ~PingHandler[e]
    /\ Len(WireFrames(wire[e])) = 1
    /\ LastFrame(e).opcode = OpcodePong
    /\ LastFrame(e).payload = <<9>>
    /\ pingCalls[e] = <<>>
    /\ inj = 0

(***************************************************************************)
(* C14                                                                     *)
(***************************************************************************)
IsPrefix(a, b) == Len(a) <= Len(b) /\ a = SubSeq(b, 1, Len(a))

\* Both ends are Opened, no call of the sender d is in progress and the
\* read loop of the receiver r has consumed every byte and waits for more
C14_Delivered(r, d) ==
  /\ state[r] = stateOpened
  /\ state[d] = stateOpened
  /\ \A u \in Users : th[d][u].pc = "idle"
  /\ th[r]["rd"].pc = "R_dec"
  /\ rpos[r] = Len(wire[d])

C15_IsReason(x) == x.kind \in {"CloseError", "EOF", "OpError", "other"}

\* C15: whenever the CloseHandler is invoked (read-loop teardown, flush
\* failure in Write, or TCPClose called by the user) its argument is present
\* and is a CloseError or the transport's error: no invocation gets nil.
C15_ArgumentPresent ==
  \A e \in E :
    lib[e] => \A i \in 1..Len(closeCalls[e]) :
                /\ closeCalls[e][i] # Nil
                /\ C15_IsReason(closeCalls[e][i])

(***************************************************************************)
(* C16                                                                     *)
(***************************************************************************)
C16_OriginFails == handleOrigin(hs.q, hs.r) # Nil

C16_VersionFails == Get(hs.r.Header, "Sec-Websocket-Version") # wsVersion

C16_RequestFails == validateRequest(hs.r) # Nil

C16_HijackFails == hs.w # "hijacker"

\* Upgrade refused with status code after going through n of its steps:
\* no Socket, an error, and no 101 response
C16_Refused(code, n) ==
  /\ hs.out.s = Nil
  /\ hs.out.err # Nil
  /\ hs.out.resp.StatusCode = code
  /\ hs.out.resp.StatusCode # StatusSwitchingProtocols
  /\ Len(hs.out.ran) = n

C17_Stripped(o) ==
  IF HasPrefix(o, SHttp) THEN SubSeq(o, Len(SHttp) + 1, Len(o))
  ELSE IF HasPrefix(o, SHttps) THEN SubSeq(o, Len(SHttps) + 1, Len(o))
  ELSE o

\* Upgrade went on after the origin check
C17_Passed == Len(hs.out.ran) > 1

\* C17: with the default origin predicate a request passes the origin check
\* exactly when its Origin header is empty or, without one leading http://
\* or https://, equals the request's Host; any other request is answered
\* 403 and gets no Socket.
C17_SameOrigin ==
  (hs.phase = "Upgrade" /\ hs.q.CheckOrigin = "nil") =>
    LET o == hs.r.Header["Origin"]
    IN  /\ C17_Passed <=> (o = <<>> \/ C17_Stripped(o) = hs.r.Host)
        /\ ~C17_Passed => /\ hs.out.resp.StatusCode = StatusForbidden
                          /\ hs.out.s = Nil

(***************************************************************************)
(* C18                                                                     *)
(***************************************************************************)
\* The response has the field Sec-WebSocket-Protocol
C18_Included(resp) == "Sec-Websocket-Protocol" \in DOMAIN resp.Header

\* The server chose a sub protocol and the client advertised it
C18_Agreed ==
  /\ hs.q.SubProtocol # <<>>
  /\ \E i \in 1..Len(hs.adv) : hs.adv[i] = hs.q.SubProtocol

\* C18: the 101 response of Upgrade has the header Sec-WebSocket-Protocol
\* if and only if the Request's SubProtocol is not empty and is one of the
\* sub protocols the client advertised, and then its value is that name;
\* the upgrade succeeds in both cases.  A client of the library is never
\* answered with a sub protocol it did not advertise by a server of the
\* library.
C18_SubProtocolHeader ==
  /\ (hs.phase = "Upgrade" /\ ~C16_OriginFails /\ ~C16_VersionFails
        /\ ~C16_RequestFails /\ ~C16_HijackFails)
       => /\ hs.out.s # Nil
          /\ hs.out.resp.StatusCode = StatusSwitchingProtocols
          /\ C18_Included(hs.out.resp) <=> C18_Agreed
          /\ C18_Included(hs.out.resp)
               => hs.out.resp.Header["Sec-Websocket-Protocol"]
                    = hs.q.SubProtocol
  /\ (hs.phase = "Upgrade"
        /\ hs.out.resp.StatusCode # StatusSwitchingProtocols)
       => ~C18_Included(hs.out.resp)
  /\ (hs.phase = "Dial" /\ hs.peer = "Upgrade" /\ C18_Included(hs.got))
       => \E i \in 1..Len(hs.d.SubProtocols) :
            hs.d.SubProtocols[i] = hs.got.Header["Sec-Websocket-Protocol"]

\* The client advertised "chat, mqtt", the server chose mqtt, and the 101
\* response names mqtt.
C18_Witness ==
  /\ hs.phase = "Upgrade"
  /\ hs.adv = <<SChat, SMqtt>>
  /\ hs.r.Header["Sec-Websocket-Protocol"] = SChat \o <<",", " ">> \o SMqtt
  /\ hs.q.SubProtocol = SMqtt
  /\ hs.out.s # Nil
  /\ C18_Included(hs.out.resp)
  /\ hs.out.resp.Header["Sec-Websocket-Protocol"] = SMqtt

(***************************************************************************)
(* C19                                                                     *)
(***************************************************************************)
\* The response Dial read names a sub protocol the client did not advertise
C19_Unadvertised ==
  /\ hs.phase = "Dial"
  /\ hs.peer = "any"
  /\ "Sec-Websocket-Protocol" \in DOMAIN hs.got.Header
  /\ hs.got.Header["Sec-Websocket-Protocol"] # <<>>
  /\ \A i \in 1..Len(hs.d.SubProtocols) :
       hs.d.SubProtocols[i] # hs.got.Header["Sec-Websocket-Protocol"]

\* C19: when the server's response has a non-empty Sec-WebSocket-Protocol
\* that is not one of the sub protocols the client advertised, Dial fails
\* with an OpenError and returns no Socket.
C19_UnadvertisedRejected ==
  C19_Unadvertised => /\ hs.out.s = Nil
                      /\ hs.out.err.kind = "OpenError"

(***************************************************************************)
(* C20                                                                     *)
(***************************************************************************)
C20_StatusFails == hs.got.StatusCode # StatusSwitchingProtocols

C20_UpgradeFails == ToLower(Get(hs.got.Header, "Upgrade")) # SWebsocket

C20_ConnectionFails == ToLower(Get(hs.got.Header, "Connection")) # SUpgrade

\* The accept key is not the one of the key in the request Dial sent
C20_AcceptFails ==
  Get(hs.got.Header, "Sec-Websocket-Accept")
    # makeAcceptKey(hs.r.Header["Sec-Websocket-Key"])

\* Dial returned no Socket and the OpenError with this reason
C20_Failed(reason) ==
  /\ hs.out.s = Nil
  /\ hs.out.err = OpenError(reason)

\* C20: Dial validates the response it read in the order status 101,
\* Upgrade "websocket" and Connection "upgrade" (both whatever the case),
\* Sec-WebSocket-Accept equal to the accept key of the Sec-WebSocket-Key
\* the client sent; the first check that fails gives its OpenError and no
\* Socket, and Dial returns a Socket, of the client role and Opened, only
\* when all four pass.
C20_ResponseChecks ==
  (hs.phase = "Dial" /\ hs.peer # "none") =>
    /\ C20_StatusFails => C20_Failed("http status not 101")
    /\ (~C20_StatusFails /\ C20_UpgradeFails)
         => C20_Failed("Upgrade Header should have the value of websocket")
    /\ (~C20_StatusFails /\ ~C20_UpgradeFails /\ C20_ConnectionFails)
         => C20_Failed("Connection Header should have the value of upgrade")
    /\ (~C20_StatusFails /\ ~C20_UpgradeFails /\ ~C20_ConnectionFails
          /\ C20_AcceptFails)
         => C20_Failed("challenge key failure")
    /\ hs.out.s # Nil
         => /\ ~C20_StatusFails /\ ~C20_UpgradeFails
            /\ ~C20_ConnectionFails /\ ~C20_AcceptFails
            /\ ~hs.out.s.server
            /\ hs.out.s.state = stateOpened
            /\ hs.out.err = Nil
    /\ (~C20_StatusFails /\ ~C20_UpgradeFails /\ ~C20_ConnectionFails
          /\ ~C20_AcceptFails)
         => hs.out.s # Nil

\* A 101 response with "WebSocket", "Upgrade" and the accept key of the key
\* sent gives a client Socket.
C20_Witness ==
  /\ hs.phase = "Dial"
  /\ hs.peer = "any"
  /\ hs.got.StatusCode = StatusSwitchingProtocols
  /\ hs.got.Header["Upgrade"] # SWebsocket
  /\ hs.got.Header["Connection"] # SUpgrade
  /\ hs.r.Header["Sec-Websocket-Key"] = OtherKey
  /\ hs.got.Header["Sec-Websocket-Accept"] = makeAcceptKey(OtherKey)
  /\ hs.out.s # Nil
  /\ ~hs.out.s.server

C22_ExactRead ==
  call.fn = "readFromBuffer" =>
    IF Len(Pending(call.rd)) >= call.l
    THEN /\ call.ret.st = "ok"
         /\ call.ret.p = SubSeq(Pending(call.rd), 1, call.l)
         /\ Pending(call.ret.rd) =
              SubSeq(Pending(call.rd), call.l + 1, Len(Pending(call.rd)))
    ELSE call.rd.end.kind # "block"
           => /\ call.ret.st = "err"
              /\ call.ret.err = call.rd.end

(***************************************************************************)
(* C23  Reserved bits and unknown opcodes are protocol errors               *)
(***************************************************************************)
\* The decimal text of the opcodes that are not defined
C23_Text ==
  (3 :> <<51>>) @@ (4 :> <<52>>) @@ (5 :> <<53>>) @@ (6 :> <<54>>)
  @@ (7 :> <<55>>) @@ (11 :> <<49, 49>>) @@ (12 :> <<49, 50>>)
  @@ (13 :> <<49, 51>>) @@ (14 :> <<49, 52>>) @@ (15 :> <<49, 53>>)

\* The first byte has one of the bits 4..6 set
C23_Reserved(b) == \E r \in 1..7, fin \in {0, 1}, o \in 0..15 :
                     b = 128 * fin + 16 * r + o

\* C23: when the first byte of a frame has any of the bits 4..6 set,
\* decoding fails with CloseError{1002, "no support for extensions"},
\* whatever the opcode is; otherwise, when its low 4 bits N are none of 0,
\* 1, 2, 8, 9, 10, decoding fails with CloseError{1002, "unsupported
\* opcode: N"}; otherwise readInitial returns no error.  When it fails,
\* newFrame returns no frame.
C23_InitialErrors ==
  call.fn = "readInitial" =>
    LET b == call.p[1]
        N == b % 16
        e == IF C23_Reserved(b)
             THEN CloseError(1002, StrNoExtensions)
             ELSE IF N \notin {0, 1, 2, 8, 9, 10}
             THEN CloseError(1002, StrUnsupportedOpcode \o C23_Text[N])
             ELSE Nil
    IN  /\ call.ret.err = e
        /\ e # Nil => /\ call.frame.st = "cerr"
                      /\ call.frame.e = e
                      /\ call.frame.f = NoFrame
        /\ e = Nil => call.frame.st # "cerr"

\* A first byte with a reserved bit set and an opcode that is not defined
\* has been decoded
C23_Witness ==
  /\ call.fn = "readInitial"
  /\ call.p[1] = 16 * 4 + 3
  /\ call.ret.err = CloseError(CloseProtocolError, StrNoExtensions)

\* A first byte with no reserved bit set and the opcode 11 has been decoded
C23_WitnessOpcode ==
  /\ call.fn = "readInitial"
  /\ call.p[1] = 128 + 11
  /\ call.ret.err.kind = "CloseError"
  /\ call.frame.st = "cerr"

(***************************************************************************)
(* C24  The three forms of the payload length                               *)
(***************************************************************************)
\* C24: a 7-bit length of at most 125 is the payload length and readLength
\* reads no byte; 126 makes the next 2 bytes, big endian, the length; 127
\* makes the next 8 bytes, big endian and with bit 63 cleared, the length,
\* which is then at most 2^63 - 1.  (The length is given as the eight
\* bytes of the uint64.)  Where newFrame decodes a whole frame from the
\* same bytes, its length is the same number.
C24_Length ==
  call.fn = "readLength" =>
    LET s == call.s
        l == call.ret.length
    IN  /\ call.m <= 125
             => /\ l = <<0, 0, 0, 0, 0, 0, 0, call.m>>
                /\ call.ret.n = 0
        /\ call.m = 126
             => /\ l = <<0, 0, 0, 0, 0, 0, s[1], s[2]>>
                /\ call.ret.n = 2
        /\ call.m = 127
             => /\ l = <<IF s[1] >= 128 THEN s[1] - 128 ELSE s[1],
                         s[2], s[3], s[4], s[5], s[6], s[7], s[8]>>
                /\ l[1] <= 127
                /\ call.ret.n = 8
        /\ call.frame.st = "ok"
             => l = <<0, 0, 0, 0, 0, 0, call.frame.f.length \div 256,
                      call.frame.f.length % 256>>

\* Eight length bytes with bit 63 set have been decoded
C24_Witness ==
  /\ call.fn = "readLength"
  /\ call.m = 127
  /\ call.s[1] = 255
  /\ call.ret.length[1] = 127

(***************************************************************************)
(* C25  A CloseError survives its wire form                                 *)
(***************************************************************************)
\* C25: for every CloseError with a recognized code, whatever its reason,
\* ToBytes returns no error, and NewCloseError on the bytes it returned
\* returns no error and a CloseError with the same code and reason.
C25_RoundTrip ==
  (/\ call.fn = "ToBytes"
   /\ call.c.Code \in {1000, 1001, 1002, 1003, 1005, 1006, 1007, 1008, 1009,
                       1010, 1011, 1015})
    => /\ call.ret.err = Nil
       /\ call.back.err = Nil
       /\ call.back.c = call.c

\* A CloseError with a recognized code and a reason of two bytes has been
\* encoded and decoded
C25_Witness ==
  /\ call.fn = "ToBytes"
  /\ call.c.Code = CloseTLSHandshake
  /\ Len(call.c.Reason) = 2
  /\ call.back.c = call.c

(***************************************************************************)
(* C26  Masking twice gives the payload back                                *)
(***************************************************************************)
\* C26: for every payload p and every key k of 4 bytes, masking p with k
\* and masking the result with k again gives p.
C26_Involution ==
  call.fn = "mask" => call.back = call.p

\* A payload longer than the key has been masked (which changed it) and
\* masked again
C26_Witness ==
  /\ call.fn = "mask"
  /\ Len(call.p) > 4
  /\ call.ret # call.p
  /\ call.back = call.p

(***************************************************************************)
(* C27  Encoding leaves the caller's payload as it was                      *)
(***************************************************************************)
\* C27: toBytesPayloadData, and with it toBytes and Write on a client
\* socket, which pass the caller's slice on as f.payload, leaves the bytes
\* of that slice as they were: the slice it returns is another one, and
\* only that one is masked.
C27_PayloadUntouched ==
  call.fn = "toBytesPayloadData" =>
    /\ call.ret.mem["payload"] = call.p
    /\ call.ret.ret # "payload"
    /\ call.ret.mem[call.ret.ret] =
         toBytesPayloadData(Frame(TRUE, OpcodeBinary, FALSE, 0, call.k, call.p))

\* A payload has been encoded with a key of 4 bytes that changes it
C27_Witness ==
  /\ call.fn = "toBytesPayloadData"
  /\ Len(call.k) = 4
  /\ call.p # <<>>
  /\ call.ret.mem[call.ret.ret] # call.p
  /\ call.ret.mem["payload"] = call.p

(***************************************************************************)
(* C28  parseURL: default scheme, rejected schemes, default ports           *)
(***************************************************************************)
\* C28: a URL string with no scheme is parsed as a ws URL; one whose
\* scheme is neither ws nor wss is rejected with an error and no URL; a
\* host given without a port gets the default port of the scheme (22 for
\* ws, 443 for wss), and a port that is given is kept.
C28_ParseURL ==
  hs.phase = "parseURL" =>
    LET g == hs.given
        scheme == IF g.scheme = <<>> THEN <<"w", "s">> ELSE g.scheme
        port == IF g.port # <<>> THEN g.port
                ELSE IF scheme = <<"w", "s">> THEN <<"2", "2">>
                ELSE <<"4", "4", "3">>
    IN  IF scheme # <<"w", "s">> /\ scheme # <<"w", "s", "s">>
        THEN hs.out.err # Nil /\ hs.out.l = NoURL
        ELSE /\ hs.out.err = Nil
             /\ hs.out.l.Scheme = scheme
             /\ hs.out.l.Host = g.host \o <<":">> \o port

(***************************************************************************)
(* C29  The Host header leaves the default port out                         *)
(***************************************************************************)
\* C29: the Host header createRequest sets is the host of the URL without
\* the suffix :22 when the scheme is ws and without the suffix :443 when
\* the scheme is wss; any other port is kept.  For a ws or wss URL string
\* given without a port, parseURL followed by createRequest gives a Host
\* header that is the host name alone.
C29_HostHeader ==
  (hs.phase = "parseURL" /\ hs.out.err = Nil) =>
    LET l == hs.out.l
        h == hs.r.Header["Host"]
    IN  /\ (l.Scheme = <<"w", "s">> /\ HasSuffix(l.Host, <<":", "2", "2">>))
             => h \o <<":", "2", "2">> = l.Host
        /\ (l.Scheme = <<"w", "s", "s">>
              /\ HasSuffix(l.Host, <<":", "4", "4", "3">>))
             => h \o <<":", "4", "4", "3">> = l.Host
        /\ ~(\/ l.Scheme = <<"w", "s">> /\ HasSuffix(l.Host, <<":", "2", "2">>)
             \/ l.Scheme = <<"w", "s", "s">>
                  /\ HasSuffix(l.Host, <<":", "4", "4", "3">>))
             => h = l.Host
        /\ (hs.given.port = <<>>
              /\ hs.given.scheme \in {<<>>, <<"w", "s">>, <<"w", "s", "s">>})
             => h = hs.given.host

\* A wss URL given without a port has been parsed, got the port 443, and
\* the request made for it has the host name alone in its Host header
C29_Witness ==
  /\ hs.phase = "parseURL"
  /\ hs.given.scheme = <<"w", "s", "s">>
  /\ hs.given.port = <<>>
  /\ hs.out.err = Nil
  /\ hs.out.l.Host = SHostA \o <<":", "4", "4", "3">>
  /\ hs.r.Header["Host"] = SHostA

(***************************************************************************)
(* C30  The CloseHandler runs with the write mutex released                 *)
(***************************************************************************)
\* C30: whenever a goroutine is about to invoke the CloseHandler (at
\* s.callCloseHandler in TCPClose), it does not hold the write mutex of the
\* socket, so that a Write or a Close the handler makes on the socket can
\* take the mutex and return ErrSocketClosed; this also when TCPClose was
\* called by Write after a failed flush.
C30_HandlerUnlocked ==
  \A e \in E, t \in Threads :
    (lib[e] /\ th[e][t].pc = "T_call") => writeMutex[e] # t

(***************************************************************************)
(* C31  No handler of inbound frames runs after the CloseHandler            *)
(***************************************************************************)
\* C31: once the CloseHandler of a socket has been invoked, no step invokes
\* its ReadHandler, PingHandler or PongHandler, however the read loop is
\* interleaved with the TCPClose and Write calls of other goroutines.
C31_NoHandlerAfterClose ==
  [][\A e \in E :
       (lib[e] /\ closeCalls[e] # <<>>)
         => /\ readCalls'[e] = readCalls[e]
            /\ pingCalls'[e] = pingCalls[e]
            /\ pongCalls'[e] = pongCalls[e]]_vars

(***************************************************************************)
(* C32  Close called on both ends at once                                   *)
(***************************************************************************)
\* The user goroutine of e has called Close() and nothing else, when the
\* read loop of e had not yet consumed a byte of the peer
C32_ClosedFirst(e) ==
  /\ userCalls[e] # <<>>
  /\ userCalls[e][1] = <<"Close", 0>>
  /\ \A i \in 2..Len(userCalls[e]) : userCalls[e][i][1] = "return"

\* Every goroutine of both ends has finished, the read loops included
C32_Finished == \A e \in E, t \in Threads : th[e][t].pc \in {"idle", "done"}

\* C32: when both ends have called Close() before either has received the
\* Close frame of the other, neither end ever sends a second Close frame,
\* the CloseHandler of each is invoked at most once, and with the
\* CloseError parsed from the frame of the peer (1000, "normal closure");
\* when all goroutines have finished, each end has sent exactly one Close
\* frame, is Closed and has invoked its CloseHandler once.
C32_BothClose ==
  (\A e \in E : C32_ClosedFirst(e)) =>
    \A e \in E :
      /\ Len(CloseFrames(e)) <= 1
      /\ Len(closeCalls[e]) <= 1
      /\ closeCalls[e] # <<>> =>
           /\ CloseFrames(Peer(e)) # <<>>
           /\ closeCalls[e][1] = NewCloseError(CloseFrames(Peer(e))[1].payload).c
           /\ closeCalls[e][1] = CloseError(1000, StrNormalClosure)
      /\ C32_Finished =>
           /\ Len(CloseFrames(e)) = 1
           /\ state[e] = stateClosed
           /\ Len(closeCalls[e]) = 1

(***************************************************************************)
(* C33  No data frame after the Close frame                                 *)
(***************************************************************************)
\* Goroutine t of e is in a Write of a Text or Binary frame that read the
\* state Closing, after e has put a Close frame on the transport
C33_DataWriteWhenClosing(e, t) ==
  /\ lib[e]
  /\ InWrite(e, t)
  /\ th[e][t].o \in {OpcodeText, OpcodeBinary}
  /\ th[e][t].wobs = stateClosing
  /\ CloseFrames(e) # <<>>

\* C33: once a socket has written a Close frame and is in state Closing, a
\* Write of a Text or Binary frame that finds this state puts no byte on
\* the transport.
C33_NoDataWhenClosing ==
  [][\A e \in E, t \in Threads :
       C33_DataWriteWhenClosing(e, t) => wire'[e] = wire[e]]_vars

(***************************************************************************)
(* C34  The read loop finds the socket Closed after newFrame                *)
(***************************************************************************)
\* newFrame returns to the read loop of e in this step
C34_Decoded(e) ==
  /\ lib[e]
  /\ th[e]["rd"].pc = "R_dec"
  /\ th'[e]["rd"].pc # "R_dec"

\* The read loop of e has left through `break Read` at the state test
C34_Exited(e) == lib[e] /\ th[e]["rd"] = Thread0("done")

\* C34: when newFrame returns to the read loop of a socket that has become
\* Closed in the meantime (a TCPClose of another goroutine, or of a Write
\* whose flush failed), the read loop exits in that step: it invokes no
\* ReadHandler, PingHandler or PongHandler with what was decoded, puts no
\* byte on the transport, leaves closeError and the state alone and does
\* not invoke the CloseHandler; and a read loop that has exited this way
\* takes no further step.
C34_ClosedWhileDecoding ==
  [][\A e \in E :
       /\ (C34_Decoded(e) /\ state[e] = stateClosed)
            => /\ th'[e]["rd"] = Thread0("done")
               /\ readCalls'[e] = readCalls[e]
               /\ pingCalls'[e] = pingCalls[e]
               /\ pongCalls'[e] = pongCalls[e]
               /\ wire'[e] = wire[e]
               /\ wbuf'[e] = wbuf[e]
               /\ closeError'[e] = closeError[e]
               /\ closeCalls'[e] = closeCalls[e]
               /\ state'[e] = stateClosed
       /\ C34_Exited(e) => th'[e]["rd"] = th[e]["rd"]]_vars

\* The peer's Text frame was consumed by a read loop that then found the
\* socket Closed by a TCPClose of the user goroutine: no handler got the
\* frame, no Close frame was sent, and the CloseHandler was invoked once,
\* by TCPClose
C34_Witness ==
  \E e \in E :
    /\ C34_Exited(e)
    /\ WireFrames(wire[Peer(e)]) # <<>>
    /\ WireFrames(wire[Peer(e)])[1].opcode = OpcodeText
    /\ rpos[e] = Len(wire[Peer(e)])
    /\ readCalls[e] = <<>>
    /\ wire[e] = <<>>
    /\ closeError[e] = Nil
    /\ closeCalls[e] = <<Nil>>

(***************************************************************************)
(* C35  Frames of Write carry the mask their sender's role asks for         *)
(***************************************************************************)
\* Every frame of fs, the whole frames e has put on the transport, has fin
\* set, and is masked with a key of four bytes when e is a client and not
\* masked when e is a server
C35_ByRole(e, fs) ==
  \A i \in 1..Len(fs) :
    /\ fs[i].fin
    /\ fs[i].masked = ~server(e)
    /\ Len(fs[i].key) = IF server(e) THEN 0 ELSE 4

\* The read loop of e is not about to refuse a frame for its masking
C35_MaskAccepted(e) ==
  (th[e]["rd"].pc = "R_disp" /\ th[e]["rd"].err = Nil)
    => ReadViolation(e, th[e]["rd"].f, Nil) = Nil

\* The frame f is a Close frame with the code 1002
C35_ProtocolError(f) ==
  /\ IsClose(f)
  /\ Len(f.payload) >= 2
  /\ SubSeq(f.payload, 1, 2) = BigEndian(CloseProtocolError, 2)

\* C35 as stated: between two sockets of the library every frame on the
\* transport has fin set and the mask of its sender's role, no read loop
\* refuses a frame for its masking, and no Close frame with the code 1002
\* is ever sent.
C35_MaskingNeverFails ==
  (\A e \in E : lib[e]) =>
    \A e \in E : \E fs \in {WireFrames(wire[e])} :
      /\ C35_ByRole(e, fs)
      /\ C35_MaskAccepted(e)
      /\ \A i \in 1..Len(fs) : ~C35_ProtocolError(fs[i])

\* newFrame has returned, to the read loop of one of the ends, an error of
\* the transport that is neither io.EOF nor a *net.OpError
C35_GenericReadError == \E a \in E : th[a]["rd"].err = ErrOther

\* C35, amended: between two sockets of the library every frame on the
\* transport has fin set and the mask of its sender's role, and no read
\* loop refuses a frame for its masking; a Close frame with the code 1002
\* is sent only after a read loop got a transport error that is neither
\* io.EOF nor a *net.OpError, and it carries the reason "protocol error" of
\* that loop's generic answer or, as its acknowledgement, the code alone.
C35_MaskingByRole ==
  (\A e \in E : lib[e]) =>
    \A e \in E : \E fs \in {WireFrames(wire[e])} :
      /\ C35_ByRole(e, fs)
      /\ C35_MaskAccepted(e)
      /\ \A i \in 1..Len(fs) :
           C35_ProtocolError(fs[i])
             => /\ C35_GenericReadError
                /\ SubSeq(fs[i].payload, 3, Len(fs[i].payload))
                     \in {StrProtocolError, <<>>}

\* The server's ReadHandler got a masked frame of the client, and the
\* client's read loop has taken the server's unmasked Close frame as the
\* acknowledgement of its own and torn the connection down
C35_Witness ==
  /\ \A e \in E : lib[e]
  /\ readCalls["s"] # <<>>
  /\ closeCalls["c"] = <<NormalClosure>>
  /\ rpos["c"] = Len(wire["s"])
  /\ WireFrames(wire["c"])[1].masked
  /\ CloseFrames("s") # <<>>
  /\ ~CloseFrames("s")[1].masked

(***************************************************************************)
(* C36  A client of the library against a server of the library             *)
(***************************************************************************)
\* A client has called Dial and a server of the library has answered with
\* Upgrade
C36_LibraryHandshake == hs.phase = "Dial" /\ hs.peer = "Upgrade"

\* The response the client read, as validateResponse gets it
C36_Response ==
  [StatusCode |-> hs.got.StatusCode, Header |-> hs.got.Header,
   Request |-> hs.r]

\* C36: the request createRequest builds, for every URL parseURL accepts,
\* every Dialer.Header and every list of sub protocols, passes
\* validateWSVersionHeader and validateRequest of the server; Upgrade
\* refuses it only in handleOrigin; and when Upgrade does not refuse it,
\* the response it writes has the status 101 and passes validateResponse,
\* so that Dial returns a Socket and no error.
C36_NeverRejected ==
  C36_LibraryHandshake =>
    /\ validateWSVersionHeader(Served(hs.r)) = Nil
    /\ validateRequest(Served(hs.r)) = Nil
    /\ hs.srv.err # Nil
         => /\ hs.srv.err = handleOrigin(hs.q, Served(hs.r))
            /\ hs.srv.ran = <<"handleOrigin">>
            /\ hs.got.StatusCode = StatusForbidden
    /\ hs.srv.err = Nil
         => /\ hs.got.StatusCode = StatusSwitchingProtocols
            /\ validateResponse(C36_Response) = Nil
            /\ hs.out.err = Nil
            /\ hs.out.s = NewSocket(FALSE)

\* The user had set Upgrade, Connection, Sec-WebSocket-Version and
\* Sec-WebSocket-Key to values a server refuses, the URL had a scheme, a
\* port and a path, two sub protocols were advertised, and Dial returned a
\* Socket
C36_Witness ==
  /\ C36_LibraryHandshake
  /\ Get(hs.d.Header, "Connection") = <<"c", "l", "o", "s", "e">>
  /\ Get(hs.d.Header, "Sec-Websocket-Version") = <<"8">>
  /\ Len(hs.d.SubProtocols) = 2
  /\ hs.r.Host = SHostA \o <<":", "4", "4", "3">>
  /\ hs.srv.err = Nil
  /\ hs.out.err = Nil
  /\ hs.out.s = NewSocket(FALSE)

(***************************************************************************)
(* C37  Frames that cannot be encoded                                       *)
(***************************************************************************)
\* Keys of a length that is neither 0 nor 4
C37_BadKeys == {<<1>>, <<1, 2>>, <<1, 2, 3, 4, 5>>}

\* toBytes refuses the frame of opcode o and payload p with every key when
\* o is not defined, and with every key of a wrong length whatever o is: it
\* returns a CloseError of code 1002 and no bytes
C37_Refused(o, p) ==
  \A k \in {<<>>} \cup Keys \cup C37_BadKeys :
    (~opcodeExist(o) \/ k \in C37_BadKeys)
      => LET enc == toBytes(Frame(TRUE, o, FALSE, 0, k, p)) IN
           /\ enc.err = validate(Frame(TRUE, o, FALSE, 0, k, p))
           /\ enc.err.kind = "CloseError"
           /\ enc.err.Code = CloseProtocolError
           /\ enc.b = <<>>

\* Goroutine t of e takes a step of a Write whose opcode is not defined
C37_WriteUndefined(e, t) ==
  /\ lib[e]
  /\ th[e][t].pc \in {"W_lock", "W_unlock"}
  /\ ~opcodeExist(th[e][t].o)
  /\ Steps(e, t)

\* C37: toBytes returns an error and no bytes for a frame whose opcode is
\* not defined or whose key is neither 0 nor 4 bytes long.  A Write with an
\* opcode that is not defined, on a socket that is not Closed, returns the
\* error of toBytes (ErrSocketClosed on a Closed socket); in both steps of
\* such a Write nothing is buffered or put on the transport, the state,
\* closeError and the connection are left alone, the CloseHandler is not
\* invoked, and the second step releases the write mutex.
C37_UndefinedOpcode ==
  [][\A e \in E, t \in Threads :
       /\ (lib[e] /\ th[e][t].pc = "W_lock" /\ Steps(e, t))
            => C37_Refused(th[e][t].o, th[e][t].p)
       /\ C37_WriteUndefined(e, t)
            => /\ wire'[e] = wire[e]
               /\ wbuf'[e] = wbuf[e]
               /\ state'[e] = state[e]
               /\ closeError'[e] = closeError[e]
               /\ connClosed'[e] = connClosed[e]
               /\ closeCalls'[e] = closeCalls[e]
               /\ th[e][t].pc = "W_lock"
                    => /\ th'[e][t].pc = "W_unlock"
                       /\ th'[e][t].b = <<>>
                       /\ th'[e][t].rv =
                            IF state[e] = stateClosed THEN ErrSocketClosed
                            ELSE CloseError(CloseProtocolError,
                                            StrUnsupportedOpcode \o Decimal(3))
               /\ th[e][t].pc = "W_unlock"
                    => /\ writeMutex[e] = t
                       /\ writeMutex'[e] = "free"
                       /\ th'[e][t].pc = "idle"]_vars

\* A Write of opcode 3 on an open socket has returned the error of toBytes
\* after a Text frame was written: the Text frame is all there is on the
\* transport, the socket is Opened, and the mutex is free
C37_Witness ==
  \E e \in E :
    /\ lib[e]
    /\ sent[e] = <<<<OpcodeText, <<7>>>>, <<3, <<7>>>>>>
    /\ th[e]["u1"].pc = "idle"
    /\ writeMutex[e] = "free"
    /\ state[e] = stateOpened
    /\ closeError[e] = Nil
    /\ closeCalls[e] = <<>>
    /\ Len(WireFrames(wire[e])) = 1
    /\ WireRest(wire[e]) = <<>>

(***************************************************************************)
(* C38  CloseErrors with a code that is not recognized                      *)
(***************************************************************************)
\* The CloseError both functions fall back to
C38_Default == CloseError(1005, StrNoStatusRecieved)

\* The code in the first two bytes of b, 0 when b is shorter
C38_Code(b) == IF Len(b) >= 2 THEN b[1] * 256 + b[2] ELSE 0

C38_Recognized ==
  {1000, 1001, 1002, 1003, 1005, 1006, 1007, 1008, 1009, 1010, 1011, 1015}

\* C38: ToBytes of a CloseError whose code is not recognized returns the
\* bytes of the default (1005 in two bytes, big endian, then "no status
\* recieved") and an error, whatever the reason was; NewCloseError on fewer
\* than two bytes, or on bytes that start with a code that is not
\* recognized, returns the default CloseError and an error.
C38_Defaults ==
  /\ (call.fn = "ToBytes" /\ call.c.Code \notin C38_Recognized)
       => /\ call.ret.b = <<3, 237>> \o StrNoStatusRecieved
          /\ call.ret.err = ErrInvalidCode
          /\ call.ret.err # Nil
  /\ (/\ call.fn = "NewCloseError"
      /\ (Len(call.b) < 2 \/ C38_Code(call.b) \notin C38_Recognized))
       => /\ call.ret.c = C38_Default
          /\ call.ret.err = ErrInvalidCode
          /\ call.ret.err # Nil

\* NewCloseError was called with the code 1004 and a byte of reason
C38_Witness ==
  /\ call.fn = "NewCloseError"
  /\ call.b = <<3, 236, 120>>
  /\ call.ret.c = C38_Default
  /\ call.ret.err # Nil

\* NewCloseError was called with a single byte
C38_WitnessShort ==
  /\ call.fn = "NewCloseError"
  /\ Len(call.b) = 1
  /\ call.ret.c = C38_Default

(***************************************************************************)
(* C39  The header toBytes writes                                           *)
(***************************************************************************)
\* The bytes of the extended payload length for a payload of n bytes
C39_Ext(n) ==
  IF n <= 125 THEN <<>>
  ELSE IF n <= 65535 THEN <<n \div 256, n % 256>>
  ELSE <<0, 0, 0, 0, 0, (n \div 65536) % 256, (n \div 256) % 256, n % 256>>

\* head, the first bytes toBytes returned for a payload of n bytes and the
\* key k, of total bytes in all: the marker is n up to 125, 126 up to
\* 65535 and 127 above, the extended length follows in 2 or 8 bytes big
\* endian, the mask bit is set exactly when the key has 4 bytes, and the
\* key and the payload are all that follows
C39_Head(head, n, k, total) ==
  /\ head[2] % 128 = (IF n <= 125 THEN n ELSE IF n <= 65535 THEN 126 ELSE 127)
  /\ SubSeq(head, 3, 2 + Len(C39_Ext(n))) = C39_Ext(n)
  /\ (head[2] >= 128) <=> (Len(k) = 4)
  /\ total = 2 + Len(C39_Ext(n)) + Len(k) + n

\* C39: the header toBytes writes depends on the payload and the key only:
\* the length marker and the extended length are those of the payload's
\* size (125, 126, 127, 65535 and 65536 bytes included), the mask bit is set
\* exactly when a key of 4 bytes is given, and a frame whose masked and
\* length fields say something else is encoded to the same bytes as the
\* frame with these fields cleared.
C39_HeaderFromPayload ==
  /\ (call.fn = "toBytesFields")
       => /\ call.ret.err = Nil
          /\ C39_Head(call.ret.b, Len(call.f.payload), call.f.key,
                      Len(call.ret.b))
          /\ call.ret = call.plain
  /\ (call.fn = "toBytes" /\ call.ret.err = Nil)
       => C39_Head(call.ret.b, Len(call.f.payload), call.f.key,
                   Len(call.ret.b))
  /\ (call.fn = "newFrameLong")
       => /\ call.err = Nil
          /\ C39_Head(call.head, call.size, call.f.key, call.encoded)

\* A frame of 126 bytes without a key, whose fields say it is masked and
\* 65536 bytes long, was encoded with the marker 126, the length 0x007E and
\* no mask bit
C39_Witness ==
  /\ call.fn = "toBytesFields"
  /\ call.f.masked
  /\ call.f.length = 65536
  /\ call.f.key = <<>>
  /\ Len(call.f.payload) = 126
  /\ SubSeq(call.ret.b, 1, 4) = <<129, 126, 0, 126>>

\* A payload of 65536 bytes with a key was encoded with the marker 127 and
\* the mask bit
C39_WitnessLong ==
  /\ call.fn = "newFrameLong"
  /\ call.size = 65536
  /\ Len(call.f.key) = 4
  /\ SubSeq(call.head, 1, 10) = <<130, 255, 0, 0, 0, 0, 0, 1, 0, 0>>

(***************************************************************************)
(* C40  The delay of tcpClose                                               *)
(***************************************************************************)
\* C40: tcpClose on a socket that is not Closed closes the transport at
\* once when CloseDelay is 0, and when CloseDelay is positive it first
\* waits, without failing, for exactly the duration CloseDelay holds.
C40_WaitsCloseDelay ==
  call.fn = "tcpClose"
    => /\ ~call.ret.panic
       /\ call.CloseDelay = Uint64(0) => call.ret.wait = "none"
       /\ Positive(call.CloseDelay)
            => /\ call.ret.wait = "tick"
               /\ call.ret.d = call.CloseDelay

\* tcpClose with a CloseDelay of a second has waited for 10^18 nanoseconds
C40_Seconds ==
  (call.fn = "tcpClose" /\ call.CloseDelay = Second)
    => call.ret = [wait |-> "tick", panic |-> FALSE,
                   d |-> <<13, 224, 182, 179, 167, 100, 0, 0>>]

\* tcpClose with a CloseDelay of ten seconds has panicked in NewTicker: the
\* product is 10^19 - 2^64, a negative int64
C40_Overflow ==
  (call.fn = "tcpClose" /\ call.CloseDelay = TenSeconds)
    => call.ret = [wait |-> "none", panic |-> TRUE,
                   d |-> <<138, 199, 35, 4, 137, 232, 0, 0>>]

====
